---- MODULE Spec2Model ----
(***************************************************************************)
(* Machine-dependent wasm32 layer of libffi (src/src/wasm32/ffi.c).        *)
(*                                                                         *)
(* Spec      CIF preparation (ffi_prep_cif_machdep, ffi_prep_cif_machdep_  *)
(*           var) in both build variants, over a heap of type descriptors. *)
(* SpecCall  the non-emscripten build: preparation, ffi_call, the closure  *)
(*           entry points and the host primitives they consume.            *)
(***************************************************************************)
EXTENDS Integers, Sequences, FiniteSets, TLC

(***************************************************************************)
(* Bounds of the model.                                                    *)
(***************************************************************************)
\* elements of a user-defined struct
MaxElems == 2
\* arguments of a small CIF (CIFs at the MAX_ARGS limit are added to these)
MaxArgs == 1
\* arguments of a CIF that is called (SpecCall)
MaxCallArgs == 2
\* closure objects and table slots the host hands out (SpecCall)
MaxClosures == 1

(***************************************************************************)
(* Program constants.                                                      *)
(***************************************************************************)
MAX_ARGS == 1000
VARARGS_FLAG == 1

FFI_OK == "FFI_OK"
FFI_BAD_TYPEDEF == "FFI_BAD_TYPEDEF"
FFI_BAD_ABI == "FFI_BAD_ABI"
NoStatus == "none"

FFI_WASM32 == "FFI_WASM32"
FFI_WASM32_EMSCRIPTEN == "FFI_WASM32_EMSCRIPTEN"
\* any tag outside the enumeration (FFI_FIRST_ABI, FFI_LAST_ABI, garbage)
FFI_OTHER_ABI == "FFI_OTHER_ABI"
Abis == {FFI_WASM32, FFI_WASM32_EMSCRIPTEN, FFI_OTHER_ABI}

\* the two builds of the file: #ifdef __EMSCRIPTEN__ / #else
Emscripten == "emscripten"
Wasix == "wasix"
Variants == {Emscripten, Wasix}

FFI_TYPE_VOID == "VOID"
FFI_TYPE_INT == "INT"
FFI_TYPE_FLOAT == "FLOAT"
FFI_TYPE_DOUBLE == "DOUBLE"
FFI_TYPE_LONGDOUBLE == "LONGDOUBLE"
FFI_TYPE_UINT8 == "UINT8"
FFI_TYPE_SINT8 == "SINT8"
FFI_TYPE_UINT16 == "UINT16"
FFI_TYPE_SINT16 == "SINT16"
FFI_TYPE_UINT32 == "UINT32"
FFI_TYPE_SINT32 == "SINT32"
FFI_TYPE_UINT64 == "UINT64"
FFI_TYPE_SINT64 == "SINT64"
FFI_TYPE_STRUCT == "STRUCT"
FFI_TYPE_POINTER == "POINTER"
FFI_TYPE_COMPLEX == "COMPLEX"

(***************************************************************************)
(* Type descriptors.  A descriptor is addressed by a small integer; NULL   *)
(* is the null pointer.  `elements' is the null-terminated vector the      *)
(* descriptor points at, kept as the sequence of its entries.              *)
(***************************************************************************)
NULL == 0
ffi_type_void == 1
ffi_type_uint8 == 2
ffi_type_sint8 == 3
ffi_type_uint16 == 4
ffi_type_sint16 == 5
ffi_type_uint32 == 6
ffi_type_sint32 == 7
ffi_type_uint64 == 8
ffi_type_sint64 == 9
ffi_type_float == 10
ffi_type_double == 11
ffi_type_longdouble == 12
ffi_type_pointer == 13
\* the heap holds two user-defined descriptors after the predefined ones;
\* the second may have the first among its elements
FirstUser == ffi_type_pointer + 1
LastUser == FirstUser + 1

Descr(k, s, a, e) == [type |-> k, size |-> s, alignment |-> a, elements |-> e]

\* the predefined descriptors of the front-end, wasm32 sizes
PredefinedTypes ==
  (ffi_type_void :> Descr(FFI_TYPE_VOID, 1, 1, <<>>)) @@
  (ffi_type_uint8 :> Descr(FFI_TYPE_UINT8, 1, 1, <<>>)) @@
  (ffi_type_sint8 :> Descr(FFI_TYPE_SINT8, 1, 1, <<>>)) @@
  (ffi_type_uint16 :> Descr(FFI_TYPE_UINT16, 2, 2, <<>>)) @@
  (ffi_type_sint16 :> Descr(FFI_TYPE_SINT16, 2, 2, <<>>)) @@
  (ffi_type_uint32 :> Descr(FFI_TYPE_UINT32, 4, 4, <<>>)) @@
  (ffi_type_sint32 :> Descr(FFI_TYPE_SINT32, 4, 4, <<>>)) @@
  (ffi_type_uint64 :> Descr(FFI_TYPE_UINT64, 8, 8, <<>>)) @@
  (ffi_type_sint64 :> Descr(FFI_TYPE_SINT64, 8, 8, <<>>)) @@
  (ffi_type_float :> Descr(FFI_TYPE_FLOAT, 4, 4, <<>>)) @@
  (ffi_type_double :> Descr(FFI_TYPE_DOUBLE, 8, 8, <<>>)) @@
  (ffi_type_longdouble :> Descr(FFI_TYPE_LONGDOUBLE, 16, 16, <<>>)) @@
  (ffi_type_pointer :> Descr(FFI_TYPE_POINTER, 4, 4, <<>>))

UserIds == FirstUser .. LastUser

Max(a, b) == IF a > b THEN a ELSE b
AlignUp(n, a) == ((n + a - 1) \div a) * a

\* size and alignment the front-end gives a struct of the elements els
RECURSIVE AggregateLayout(_, _, _, _, _)
AggregateLayout(h, els, i, off, al) ==
  IF i > Len(els) THEN [size |-> AlignUp(off, al), alignment |-> al]
  ELSE LET e == h[els[i]]
       IN AggregateLayout(h, els, i + 1,
                          AlignUp(off, e.alignment) + e.size,
                          Max(al, e.alignment))

StructDescr(h, els) ==
  LET l == AggregateLayout(h, els, 1, 0, 1)
  IN Descr(FFI_TYPE_STRUCT, l.size, l.alignment, els)

ComplexDescr(h, base) ==
  Descr(FFI_TYPE_COMPLEX, 2 * h[base].size, h[base].alignment, <<base>>)

SeqsUpTo(S, n) == UNION {[1..k -> S] : k \in 0..n}

\* what a user descriptor u may be, given the descriptors below it
UserShapes(h, u) ==
  {StructDescr(h, els) :
     els \in SeqsUpTo({ffi_type_sint32, ffi_type_longdouble} \cup (FirstUser .. (u - 1)), MaxElems)}
  \cup {ComplexDescr(h, b) : b \in {ffi_type_float, ffi_type_double, ffi_type_longdouble}}

RECURSIVE HeapsUpTo(_)
HeapsUpTo(u) ==
  IF u < FirstUser THEN {PredefinedTypes}
  ELSE UNION {{h @@ (u :> d) : d \in UserShapes(h, u)} : h \in HeapsUpTo(u - 1)}

\* descriptors reachable from the set S through `elements'
RECURSIVE ReachFrom(_, _)
ReachFrom(h, S) ==
  LET N == S \cup UNION {{h[t].elements[i] : i \in 1..Len(h[t].elements)} : t \in S}
  IN IF N = S THEN S ELSE ReachFrom(h, N)

\* cif->arg_types[i - 1]: the vector is kept by its repeating pattern, so that
\* a vector of MAX_ARGS + 1 entries is a short value
ArgType(c, i) == c.arg_types[((i - 1) % Len(c.arg_types)) + 1]

CifRoots(c) == ({c.rtype} \cup {c.arg_types[i] : i \in 1..Len(c.arg_types)}) \ {NULL}
Reachable(h, c) == ReachFrom(h, CifRoots(c))

\* the layout of linear memory
Region(k) == 16 * k
\* the caller's return storage
RvalueAddr == Region(1)
\* the caller-owned value of argument i (avalue[i - 1])
ArgValueAddr(i) == Region(1 + i)
\* ffi_call's values buffer, a hidden pointer and MaxCallArgs long doubles at most
ValuesAddr == Region(2 + MaxCallArgs)
\* the buffers the host hands the backing function
WasmArgsAddr == ValuesAddr + Region(1 + MaxCallArgs)
WasmResultsAddr == WasmArgsAddr + Region(1 + MaxCallArgs)
MemSize == WasmResultsAddr + Region(1)
Addrs == 0 .. (MemSize - 1)
\* the emscripten build keeps its stack, which grows downwards, in the
\* buffer space of the other build
MaxJsArgs == 3
JsMemSize == 512
JsAddrs == 0..(JsMemSize - 1)
StackTop == JsMemSize - Region(2)
StackLimit == Region(2 + MaxJsArgs)

VARIABLES
  variant,    \* the build: Emscripten or Wasix
  types,      \* the heap of type descriptors
  types0,     \* the heap as the caller built it (never changes)
  cif,        \* the call interface
  nullKind,   \* the type id the memory at the null address reads as
  status,     \* the ffi_status the last entry point returned
  lastOp,     \* the last entry point called
  aborted,    \* the process has aborted
  mem,        \* linear memory: the caller's values and the call buffers
  table,      \* the host's indirect function table
  closures,   \* the closure allocations
  hostCall,   \* the dynamic call the last entry point made, if any
  handlerCall,\* the handler invocation the last entry point led to, if any
  hostError,  \* a host primitive reported an error to the last entry point
  applied,    \* the classifier, lowerer or raiser applied last, with what it gave
  stack_pointer,     \* the wasm stack pointer (emscripten build)
  freeTableIndexes   \* the free-slot pool of the table (emscripten build)

vars == <<variant, types, types0, cif, nullKind, status, lastOp, aborted,
          mem, table, closures, hostCall, handlerCall, hostError, applied,
          stack_pointer, freeTableIndexes>>

\* type->type; through a null pointer the read yields what the memory at the
\* null address holds
TypeKind(h, type) == IF type = NULL THEN nullKind ELSE h[type].type

(***************************************************************************)
(* replace_type                                                            *)
(***************************************************************************)
RtResult(h, k, ab) == [h |-> h, k |-> k, abort |-> ab]

\* replace_complex as the older source had it: only the double case is
\* rewritten, any other complex type is left as it is
replace_complex_double_only(h, type) ==
  LET complex_type == h[h[type].elements[1]]
  IN IF complex_type.type = FFI_TYPE_DOUBLE
     THEN RtResult([h EXCEPT ![type] = Descr(FFI_TYPE_STRUCT, complex_type.size * 2,
                                             complex_type.alignment,
                                             <<ffi_type_double, ffi_type_double>>)],
                   FFI_TYPE_STRUCT, FALSE)
     ELSE RtResult(h, FFI_TYPE_COMPLEX, FALSE)

\* the branch for FFI_TYPE_COMPLEX: the descriptor becomes a struct of two
\* fields of the underlying floating-point kind
replace_complex(h, type) ==
  LET complex_type == h[h[type].elements[1]]
      new_elements ==
        CASE complex_type.type = FFI_TYPE_FLOAT -> <<ffi_type_float, ffi_type_float>>
          [] complex_type.type = FFI_TYPE_DOUBLE -> <<ffi_type_double, ffi_type_double>>
          [] complex_type.type = FFI_TYPE_LONGDOUBLE -> <<ffi_type_longdouble, ffi_type_longdouble>>
          [] OTHER -> <<>>
  IN IF complex_type.type \notin {FFI_TYPE_FLOAT, FFI_TYPE_DOUBLE, FFI_TYPE_LONGDOUBLE}
     THEN RtResult(h, FFI_TYPE_COMPLEX, TRUE)
     ELSE RtResult([h EXCEPT ![type] = Descr(FFI_TYPE_STRUCT, complex_type.size * 2,
                                             complex_type.alignment, new_elements)],
                   FFI_TYPE_STRUCT, FALSE)

\* the branch for a long double in result position
replace_longdouble_result(h, type) ==
  RtResult([h EXCEPT ![type] = Descr(FFI_TYPE_STRUCT, h[ffi_type_sint64].size * 2, 16,
                                     <<ffi_type_sint64, ffi_type_sint64>>)],
           FFI_TYPE_STRUCT, FALSE)

\* collapse_struct without the test on the number of non-void elements
collapse_struct_always(h, type, scalar_type, n) ==
  RtResult([h EXCEPT ![type].type = scalar_type], scalar_type, FALSE)

\* the end of the struct branch, after the loop over the elements left the
\* heap h, the last non-void kind scalar_type and the count n of non-void
\* elements
collapse_struct(h, type, scalar_type, n) ==
  IF n > 1 THEN RtResult(h, h[type].type, FALSE)
  ELSE RtResult([h EXCEPT ![type].type = scalar_type], scalar_type, FALSE)

RECURSIVE replace_type(_, _, _)
RECURSIVE replace_elements(_, _, _, _, _)

\* the loop over type->elements: scalar_type and number_of_nonvoid_elements
replace_elements(h, els, i, scalar_type, n) ==
  IF i > Len(els) THEN [h |-> h, scalar_type |-> scalar_type, n |-> n, abort |-> FALSE]
  ELSE LET r == replace_type(h, els[i], FALSE)
       IN IF r.abort THEN [h |-> r.h, scalar_type |-> scalar_type, n |-> n, abort |-> TRUE]
          ELSE IF r.k # FFI_TYPE_VOID
               THEN replace_elements(r.h, els, i + 1, r.k, n + 1)
               ELSE replace_elements(r.h, els, i + 1, scalar_type, n)

replace_type(h, type, in_results) ==
  IF type = NULL THEN RtResult(h, FFI_TYPE_VOID, FALSE)
  ELSE IF h[type].type = FFI_TYPE_COMPLEX THEN replace_complex(h, type)
  ELSE IF in_results /\ h[type].type = FFI_TYPE_LONGDOUBLE THEN replace_longdouble_result(h, type)
  ELSE IF h[type].type = FFI_TYPE_STRUCT THEN
    IF h[type].size = 0
    THEN RtResult([h EXCEPT ![type].type = FFI_TYPE_VOID], FFI_TYPE_VOID, FALSE)
    ELSE LET r == replace_elements(h, h[type].elements, 1, FFI_TYPE_VOID, 0)
         IN IF r.abort THEN RtResult(r.h, FFI_TYPE_STRUCT, TRUE)
            ELSE collapse_struct(r.h, type, r.scalar_type, r.n)
  ELSE RtResult(h, h[type].type, FALSE)

\* for (i = 0; i < cif->nargs; i++) replace_type(cif->arg_types[i], false);
\* the arguments lo..hi in index order (split in halves: the vector can be
\* MAX_ARGS + 1 long)
RECURSIVE replace_args(_, _, _, _)
replace_args(h, c, lo, hi) ==
  IF lo > hi THEN RtResult(h, FFI_TYPE_VOID, FALSE)
  ELSE IF lo = hi THEN replace_type(h, ArgType(c, lo), FALSE)
  ELSE LET mid == (lo + hi) \div 2
           r == replace_args(h, c, lo, mid)
       IN IF r.abort THEN r ELSE replace_args(r.h, c, mid + 1, hi)

(***************************************************************************)
(* CIFs.  arg_types is the vector of nargs descriptor references.          *)
(***************************************************************************)
Cif(abi, nargs, args, rtype, nfixed) ==
  [abi |-> abi, nargs |-> nargs, arg_types |-> args, rtype |-> rtype,
   nfixedargs |-> nfixed, flags |-> 0]

ArgTypeChoices == {ffi_type_sint32, ffi_type_longdouble} \cup UserIds
RTypeChoices == {NULL, ffi_type_void, ffi_type_sint32, ffi_type_longdouble} \cup UserIds

\* the argument vectors: every short one, and vectors of ints at and just
\* above the MAX_ARGS limit
ArgVectors ==
  {[nargs |-> Len(a), arg_types |-> a] : a \in SeqsUpTo(ArgTypeChoices, MaxArgs)}
  \cup {[nargs |-> n, arg_types |-> <<ffi_type_sint32>>] : n \in {MAX_ARGS, MAX_ARGS + 1}}

\* a user descriptor the CIF does not reach is unrelated memory: one shape
Relevant(h, c) ==
  \A u \in UserIds : u \in Reachable(h, c) \/ h[u] = StructDescr(h, <<>>)

InitCifs(h) ==
  {c \in {Cif(a, v.nargs, v.arg_types, r, 0) : a \in Abis, v \in ArgVectors, r \in RTypeChoices} :
     /\ Relevant(h, c)
     \* the CIFs at the limit return a predefined type
     /\ c.nargs >= MAX_ARGS => c.rtype \notin UserIds}

\* what an entry point that reaches neither the host nor a handler leaves
NoObservations == hostCall = <<>> /\ handlerCall = <<>> /\ hostError = FALSE
ClearObservations == hostCall' = <<>> /\ handlerCall' = <<>> /\ hostError' = FALSE

Init ==
  /\ variant \in Variants
  /\ types \in HeapsUpTo(LastUser)
  \* the front-end leaves nfixedargs unset: whatever the memory held
  /\ \E c \in InitCifs(types) : cif = [c EXCEPT !.nfixedargs = c.nargs + 1]
  \* preparation reads through a null pointer only in the emscripten build,
  \* and only through a null cif->rtype: elsewhere what the memory holds is moot
  /\ nullKind \in IF variant = Emscripten /\ cif.rtype = NULL
                  THEN {FFI_TYPE_VOID, FFI_TYPE_COMPLEX} ELSE {FFI_TYPE_VOID}
  /\ types0 = types
  /\ status = NoStatus
  /\ lastOp = "init"
  /\ aborted = FALSE
  \* preparation touches neither memory nor the host
  /\ mem = <<>>
  /\ table = <<>>
  /\ closures = <<>>
  /\ NoObservations
  /\ applied = <<>>
  /\ stack_pointer = StackTop
  /\ freeTableIndexes = <<>>

(***************************************************************************)
(* ffi_prep_cif_machdep                                                    *)
(***************************************************************************)
HasVarargsFlag(c) == (c.flags \div VARARGS_FLAG) % 2 = 1
SetVarargsFlag(c) == IF HasVarargsFlag(c) THEN c.flags ELSE c.flags + VARARGS_FLAG

\* prep_cif_tail with the limit off by one
prep_cif_tail_off_by_one(c) ==
  LET c1 == IF ~HasVarargsFlag(c) THEN [c EXCEPT !.nfixedargs = c.nargs] ELSE c
  IN [cif |-> c1, status |-> IF c1.nargs >= MAX_ARGS THEN FFI_BAD_TYPEDEF ELSE FFI_OK]

\* prep_cif_tail returning on the MAX_ARGS check before it sets nfixedargs
prep_cif_tail_limit_first(c) ==
  IF c.nargs > MAX_ARGS THEN [cif |-> c, status |-> FFI_BAD_TYPEDEF]
  ELSE [cif |-> IF ~HasVarargsFlag(c) THEN [c EXCEPT !.nfixedargs = c.nargs] ELSE c,
        status |-> FFI_OK]

\* the tail both builds share: nfixedargs, then the MAX_ARGS check
prep_cif_tail(c) ==
  LET c1 == IF ~HasVarargsFlag(c) THEN [c EXCEPT !.nfixedargs = c.nargs] ELSE c
  IN [cif |-> c1, status |-> IF c1.nargs > MAX_ARGS THEN FFI_BAD_TYPEDEF ELSE FFI_OK]

\* the emscripten branch without its loop over the argument types
prep_cif_emscripten_rtype_only(h, c, rkind) ==
  IF c.abi # FFI_WASM32_EMSCRIPTEN THEN [cif |-> c, status |-> FFI_BAD_ABI]
  ELSE IF rkind = FFI_TYPE_COMPLEX THEN [cif |-> c, status |-> FFI_BAD_TYPEDEF]
  ELSE prep_cif_tail(c)

\* #ifdef __EMSCRIPTEN__ branch; rkind is the kind read through cif->rtype
prep_cif_emscripten(h, c, rkind) ==
  IF c.abi # FFI_WASM32_EMSCRIPTEN THEN [cif |-> c, status |-> FFI_BAD_ABI]
  ELSE IF rkind = FFI_TYPE_COMPLEX THEN [cif |-> c, status |-> FFI_BAD_TYPEDEF]
  ELSE IF \E i \in 1..c.nargs : h[ArgType(c, i)].type = FFI_TYPE_COMPLEX
       THEN [cif |-> c, status |-> FFI_BAD_TYPEDEF]
  ELSE prep_cif_tail(c)

\* #else branch: the heap after both replace_type passes
prep_cif_replace(h, c) ==
  LET a == replace_args(h, c, 1, c.nargs)
  IN IF a.abort THEN a ELSE replace_type(a.h, c.rtype, TRUE)


ffi_prep_cif_machdep ==
  /\ ~aborted
  /\ lastOp' = "prep_cif_machdep"
  /\ UNCHANGED <<stack_pointer, freeTableIndexes, applied, variant, types0, nullKind, mem, table, closures>>
  /\ ClearObservations
  /\ IF variant = Emscripten
     THEN LET r == prep_cif_emscripten(types, cif, TypeKind(types, cif.rtype))
          IN /\ cif' = r.cif
             /\ status' = r.status
             /\ UNCHANGED <<types, aborted>>
     ELSE LET r == prep_cif_replace(types, cif)
              t == prep_cif_tail(cif)
          IN IF r.abort
             THEN /\ aborted' = TRUE
                  /\ types' = r.h
                  /\ UNCHANGED <<cif, status>>
             ELSE /\ types' = r.h
                  /\ cif' = t.cif
                  /\ status' = t.status
                  /\ UNCHANGED aborted

(***************************************************************************)
(* ffi_prep_cif_machdep_var                                                *)
(***************************************************************************)
\* nfixedargs values a caller asks for (none near the unsigned limit, so the
\* sum nfixedargs + 1 below never wraps)
NFixedRequests(c) == {n \in {0, 1, MAX_ARGS - 1, MAX_ARGS, c.nargs} : n <= c.nargs}

prep_cif_var(c, nfixedargs) ==
  LET c1 == [c EXCEPT !.flags = SetVarargsFlag(c), !.nfixedargs = nfixedargs]
  IN [cif |-> c1,
      status |-> IF variant = Emscripten
                 THEN IF c1.nfixedargs + 1 > MAX_ARGS THEN FFI_BAD_TYPEDEF ELSE FFI_OK
                 ELSE FFI_BAD_ABI]

ffi_prep_cif_machdep_var ==
  /\ ~aborted
  /\ \E nfixedargs \in NFixedRequests(cif) :
       LET r == prep_cif_var(cif, nfixedargs)
       IN /\ cif' = r.cif
          /\ status' = r.status
  /\ lastOp' = "prep_cif_machdep_var"
  /\ ClearObservations
  /\ UNCHANGED <<stack_pointer, freeTableIndexes, applied, variant, types, types0, nullKind, aborted, mem, table, closures>>

(***************************************************************************)
(* The ABI classifier of the non-emscripten build.  A function that can    *)
(* reach ABORT_WITH_MSG yields its value and whether it aborted.           *)
(***************************************************************************)
FFI_WASM_TYPE_I32 == 0
FFI_WASM_TYPE_I64 == 1
FFI_WASM_TYPE_F32 == 2
FFI_WASM_TYPE_F64 == 3

Val(v) == [v |-> v, abort |-> FALSE]
Abort(v) == [v |-> v, abort |-> TRUE]

Int32Kinds ==
  {FFI_TYPE_INT, FFI_TYPE_UINT8, FFI_TYPE_SINT8, FFI_TYPE_UINT16, FFI_TYPE_SINT16,
   FFI_TYPE_UINT32, FFI_TYPE_SINT32}

\* type_size taking a long double for a single 64-bit slot
type_size_one_slot(h, type) ==
  IF type = NULL THEN Val(0)
  ELSE LET k == h[type].type
       IN CASE k = FFI_TYPE_VOID -> Val(0)
            [] k \in Int32Kinds -> Val(4)
            [] k = FFI_TYPE_FLOAT -> Val(4)
            [] k \in {FFI_TYPE_UINT64, FFI_TYPE_SINT64} -> Val(8)
            [] k = FFI_TYPE_DOUBLE -> Val(8)
            [] k \in {FFI_TYPE_POINTER, FFI_TYPE_STRUCT} -> Val(4)
            [] k = FFI_TYPE_LONGDOUBLE -> Val(8)
            [] OTHER -> Abort(0)

type_size(h, type) ==
  IF type = NULL THEN Val(0)
  ELSE LET k == h[type].type
       IN CASE k = FFI_TYPE_VOID -> Val(0)
            [] k \in Int32Kinds -> Val(4)
            [] k = FFI_TYPE_FLOAT -> Val(4)
            [] k \in {FFI_TYPE_UINT64, FFI_TYPE_SINT64} -> Val(8)
            [] k = FFI_TYPE_DOUBLE -> Val(8)
            [] k \in {FFI_TYPE_POINTER, FFI_TYPE_STRUCT} -> Val(4)
            [] k = FFI_TYPE_LONGDOUBLE -> Val(16)
            [] OTHER -> Abort(0)

\* return_indirect treating a long double as the struct it is rewritten to,
\* and a pointer with it
return_indirect_wide(h, rtype) ==
  IF rtype = NULL THEN Val(FALSE)
  ELSE LET k == h[rtype].type
       IN CASE k \in ({FFI_TYPE_VOID, FFI_TYPE_FLOAT, FFI_TYPE_UINT64, FFI_TYPE_SINT64,
                       FFI_TYPE_DOUBLE} \cup Int32Kinds) -> Val(FALSE)
            [] k \in {FFI_TYPE_STRUCT, FFI_TYPE_POINTER, FFI_TYPE_LONGDOUBLE} -> Val(TRUE)
            [] OTHER -> Abort(FALSE)

return_indirect(h, rtype) ==
  IF rtype = NULL THEN Val(FALSE)
  ELSE LET k == h[rtype].type
       IN CASE k \in ({FFI_TYPE_VOID, FFI_TYPE_FLOAT, FFI_TYPE_UINT64, FFI_TYPE_SINT64,
                       FFI_TYPE_DOUBLE, FFI_TYPE_POINTER} \cup Int32Kinds) -> Val(FALSE)
            [] k = FFI_TYPE_STRUCT -> Val(TRUE)
            [] OTHER -> Abort(FALSE)

\* no null test here: a null type is read through
arguments_count(h, type) ==
  LET k == TypeKind(h, type)
  IN CASE k = FFI_TYPE_VOID -> Val(0)
       [] k \in ({FFI_TYPE_FLOAT, FFI_TYPE_UINT64, FFI_TYPE_SINT64, FFI_TYPE_DOUBLE,
                  FFI_TYPE_POINTER, FFI_TYPE_STRUCT} \cup Int32Kinds) -> Val(1)
       [] k = FFI_TYPE_LONGDOUBLE -> Val(2)
       [] OTHER -> Abort(0)

\* the kind codes place_type appends to the buffer
place_type(h, type) ==
  LET k == TypeKind(h, type)
  IN CASE k = FFI_TYPE_VOID -> Val(<<>>)
       [] k \in Int32Kinds -> Val(<<FFI_WASM_TYPE_I32>>)
       [] k = FFI_TYPE_FLOAT -> Val(<<FFI_WASM_TYPE_F32>>)
       [] k \in {FFI_TYPE_UINT64, FFI_TYPE_SINT64} -> Val(<<FFI_WASM_TYPE_I64>>)
       [] k = FFI_TYPE_DOUBLE -> Val(<<FFI_WASM_TYPE_F64>>)
       [] k \in {FFI_TYPE_POINTER, FFI_TYPE_STRUCT} -> Val(<<FFI_WASM_TYPE_I32>>)
       [] k = FFI_TYPE_LONGDOUBLE -> Val(<<FFI_WASM_TYPE_I64, FFI_WASM_TYPE_I64>>)
       [] OTHER -> Abort(<<>>)

(***************************************************************************)
(* Linear memory: bytes at small addresses.  A pointer is stored as four   *)
(* little-endian bytes.                                                    *)
(***************************************************************************)
ReadBytes(m, a, n) == [i \in 1..n |-> m[a + i - 1]]
WriteBytes(m, a, bs) ==
  [x \in DOMAIN m |-> IF x >= a /\ x < a + Len(bs) THEN bs[x - a + 1] ELSE m[x]]

\* (UINT32)(pointer): addresses of the model fit the low byte
PointerBytes(a) == <<a % 256, a \div 256, 0, 0>>
\* the pointer four bytes hold; outside the memory of the model it is wild
BytesPointer(bs) ==
  IF bs[3] = 0 /\ bs[4] = 0 /\ bs[1] + 256 * bs[2] < MemSize
  THEN bs[1] + 256 * bs[2] ELSE NULL

\* (UINT32) of an unsigned, (SINT32) of a signed narrow integer
ZeroExtend(bs) == bs \o [i \in 1..(4 - Len(bs)) |-> 0]
\* a signed narrow integer widened as if it were unsigned
SignExtendAsUnsigned(bs) == bs \o [i \in 1..(4 - Len(bs)) |-> 0]
SignExtend(bs) ==
  bs \o [i \in 1..(4 - Len(bs)) |-> IF bs[Len(bs)] >= 128 THEN 255 ELSE 0]

\* place_value: the memory and the cursor after the value at `value' has
\* been written at the cursor `values'
PlaceResult(m, cur, ab) == [mem |-> m, cursor |-> cur, abort |-> ab]

\* place_value advancing the cursor by the size of the value for the 8-bit
\* kinds
place_value_byte_advance(h, type, value, m, values) ==
  LET k == TypeKind(h, type)
      copy(n) == PlaceResult(WriteBytes(m, values, ReadBytes(m, value, n)), values + n, FALSE)
  IN CASE k = FFI_TYPE_VOID -> PlaceResult(m, values, FALSE)
       [] k = FFI_TYPE_UINT8 ->
            PlaceResult(WriteBytes(m, values, ZeroExtend(ReadBytes(m, value, 1))), values + 1, FALSE)
       [] k = FFI_TYPE_SINT8 ->
            PlaceResult(WriteBytes(m, values, SignExtend(ReadBytes(m, value, 1))), values + 1, FALSE)
       [] k = FFI_TYPE_UINT16 ->
            PlaceResult(WriteBytes(m, values, ZeroExtend(ReadBytes(m, value, 2))), values + 4, FALSE)
       [] k = FFI_TYPE_SINT16 ->
            PlaceResult(WriteBytes(m, values, SignExtend(ReadBytes(m, value, 2))), values + 4, FALSE)
       [] k \in {FFI_TYPE_UINT32, FFI_TYPE_INT, FFI_TYPE_SINT32, FFI_TYPE_FLOAT, FFI_TYPE_POINTER} -> copy(4)
       [] k \in {FFI_TYPE_UINT64, FFI_TYPE_SINT64, FFI_TYPE_DOUBLE} -> copy(8)
       [] k = FFI_TYPE_STRUCT ->
            PlaceResult(WriteBytes(m, values, PointerBytes(value)), values + 4, FALSE)
       [] k = FFI_TYPE_LONGDOUBLE -> copy(16)
       [] OTHER -> PlaceResult(m, values, TRUE)

place_value(h, type, value, m, values) ==
  LET k == TypeKind(h, type)
      copy(n) == PlaceResult(WriteBytes(m, values, ReadBytes(m, value, n)), values + n, FALSE)
  IN CASE k = FFI_TYPE_VOID -> PlaceResult(m, values, FALSE)
       [] k = FFI_TYPE_UINT8 ->
            PlaceResult(WriteBytes(m, values, ZeroExtend(ReadBytes(m, value, 1))), values + 4, FALSE)
       [] k = FFI_TYPE_SINT8 ->
            PlaceResult(WriteBytes(m, values, SignExtend(ReadBytes(m, value, 1))), values + 4, FALSE)
       [] k = FFI_TYPE_UINT16 ->
            PlaceResult(WriteBytes(m, values, ZeroExtend(ReadBytes(m, value, 2))), values + 4, FALSE)
       [] k = FFI_TYPE_SINT16 ->
            PlaceResult(WriteBytes(m, values, SignExtend(ReadBytes(m, value, 2))), values + 4, FALSE)
       [] k \in {FFI_TYPE_UINT32, FFI_TYPE_INT, FFI_TYPE_SINT32, FFI_TYPE_FLOAT, FFI_TYPE_POINTER} -> copy(4)
       [] k \in {FFI_TYPE_UINT64, FFI_TYPE_SINT64, FFI_TYPE_DOUBLE} -> copy(8)
       [] k = FFI_TYPE_STRUCT ->
            PlaceResult(WriteBytes(m, values, PointerBytes(value)), values + 4, FALSE)
       [] k = FFI_TYPE_LONGDOUBLE -> copy(16)
       [] OTHER -> PlaceResult(m, values, TRUE)

\* take_value: the pointer handed out and the cursor after it
TakeResult(p, cur, ab) == [result |-> p, cursor |-> cur, abort |-> ab]

\* take_value handing out the cursor after it has advanced
take_value_after_advance(h, type, m, values) ==
  LET k == TypeKind(h, type)
  IN CASE k = FFI_TYPE_VOID -> TakeResult(values, values, FALSE)
       [] k \in (Int32Kinds \cup {FFI_TYPE_FLOAT, FFI_TYPE_POINTER}) -> TakeResult(values + 4, values + 4, FALSE)
       [] k \in {FFI_TYPE_UINT64, FFI_TYPE_SINT64, FFI_TYPE_DOUBLE} -> TakeResult(values + 8, values + 8, FALSE)
       [] k = FFI_TYPE_STRUCT -> TakeResult(BytesPointer(ReadBytes(m, values, 4)), values + 4, FALSE)
       [] k = FFI_TYPE_LONGDOUBLE -> TakeResult(values + 16, values + 16, FALSE)
       [] OTHER -> TakeResult(NULL, values, TRUE)

take_value(h, type, m, values) ==
  LET k == TypeKind(h, type)
  IN CASE k = FFI_TYPE_VOID -> TakeResult(values, values, FALSE)
       [] k \in (Int32Kinds \cup {FFI_TYPE_FLOAT, FFI_TYPE_POINTER}) -> TakeResult(values, values + 4, FALSE)
       [] k \in {FFI_TYPE_UINT64, FFI_TYPE_SINT64, FFI_TYPE_DOUBLE} -> TakeResult(values, values + 8, FALSE)
       [] k = FFI_TYPE_STRUCT -> TakeResult(BytesPointer(ReadBytes(m, values, 4)), values + 4, FALSE)
       [] k = FFI_TYPE_LONGDOUBLE -> TakeResult(values, values + 16, FALSE)
       [] OTHER -> TakeResult(NULL, values, TRUE)

\* the loops of ffi_call and ffi_prep_closure_loc over cif->arg_types, from
\* argument i on
RECURSIVE type_size_args(_, _, _)
type_size_args(h, c, i) ==
  IF i > c.nargs THEN Val(0)
  ELSE LET a == type_size(h, ArgType(c, i))
           r == type_size_args(h, c, i + 1)
       IN IF a.abort \/ r.abort THEN Abort(0) ELSE Val(a.v + r.v)

RECURSIVE arguments_count_args(_, _, _)
arguments_count_args(h, c, i) ==
  IF i > c.nargs THEN Val(0)
  ELSE LET a == arguments_count(h, ArgType(c, i))
           r == arguments_count_args(h, c, i + 1)
       IN IF a.abort \/ r.abort THEN Abort(0) ELSE Val(a.v + r.v)

RECURSIVE place_type_args(_, _, _)
place_type_args(h, c, i) ==
  IF i > c.nargs THEN Val(<<>>)
  ELSE LET a == place_type(h, ArgType(c, i))
           r == place_type_args(h, c, i + 1)
       IN IF a.abort \/ r.abort THEN Abort(<<>>) ELSE Val(a.v \o r.v)

RECURSIVE place_value_args(_, _, _, _, _)
place_value_args(h, c, i, m, values) ==
  IF i > c.nargs THEN PlaceResult(m, values, FALSE)
  ELSE LET a == place_value(h, ArgType(c, i), ArgValueAddr(i), m, values)
       IN IF a.abort THEN a ELSE place_value_args(h, c, i + 1, a.mem, a.cursor)

\* libffi_args[i - 1 ..] of the backing function
RECURSIVE take_value_args(_, _, _, _, _)
take_value_args(h, c, i, m, values) ==
  IF i > c.nargs THEN [args |-> <<>>, abort |-> FALSE]
  ELSE LET a == take_value(h, ArgType(c, i), m, values)
           r == take_value_args(h, c, i + 1, m, a.cursor)
       IN IF a.abort \/ r.abort THEN [args |-> <<>>, abort |-> TRUE]
          ELSE [args |-> <<a.result>> \o r.args, abort |-> FALSE]

(***************************************************************************)
(* The user handlers bound to the closures of the model.  copy_handler      *)
(* copies its first argument, of the size the caller declared for it, to   *)
(* the result area; write_handler writes through every argument pointer it *)
(* is given, changing the first byte there.                                *)
(***************************************************************************)
copy_handler(m, c, result, args) ==
  IF c.nargs = 0 THEN m
  ELSE WriteBytes(m, result, ReadBytes(m, args[1], types0[ArgType(c, 1)].size))

RECURSIVE write_handler(_, _, _, _)
write_handler(m, c, i, args) ==
  IF i > c.nargs THEN m
  ELSE IF types0[ArgType(c, i)].size = 0 THEN write_handler(m, c, i + 1, args)
  ELSE write_handler([m EXCEPT ![args[i]] = (@ + 1) % 256], c, i + 1, args)

Handlers == {"copy_handler", "write_handler"}
\* memory after closure->fun ran
call_handler(fun, m, c, result, args) ==
  IF fun = "write_handler" THEN write_handler(m, c, 1, args) ELSE copy_handler(m, c, result, args)

\* the backing function raising the arguments from the start of the buffer
\* even when a hidden return pointer comes first
closure_backing_function_no_hidden_slot(h, c, m, wasm_arguments, wasm_results, closure) ==
  LET ri == return_indirect(h, c.rtype)
      t == take_value(h, c.rtype, m, wasm_arguments)
      libffi_result == IF ri.v THEN t.result ELSE wasm_results
      a == take_value_args(h, c, 1, m, wasm_arguments)
  IN IF ri.abort \/ (ri.v /\ t.abort) \/ a.abort
     THEN [mem |-> m, handler |-> <<>>, abort |-> TRUE]
     ELSE [mem |-> call_handler(closure.fun, m, c, libffi_result, a.args),
           handler |-> <<[cif |-> closure.cif, fun |-> closure.fun, result |-> libffi_result,
                          args |-> a.args, user_data |-> closure.user_data]>>,
           abort |-> FALSE]

\* closure_backing_function: memory after the handler ran, and what the
\* handler was given; c is the CIF closure->cif points to, closure the
\* ffi_closure the host passes as closure_data_ptr
closure_backing_function(h, c, m, wasm_arguments, wasm_results, closure) ==
  LET ri == return_indirect(h, c.rtype)
      t == take_value(h, c.rtype, m, wasm_arguments)
      libffi_result == IF ri.v THEN t.result ELSE wasm_results
      libffi_args_ptr == IF ri.v THEN t.cursor ELSE wasm_arguments
      a == take_value_args(h, c, 1, m, libffi_args_ptr)
  IN IF ri.abort \/ (ri.v /\ t.abort) \/ a.abort
     THEN [mem |-> m, handler |-> <<>>, abort |-> TRUE]
     ELSE [mem |-> call_handler(closure.fun, m, c, libffi_result, a.args),
           handler |-> <<[cif |-> closure.cif, fun |-> closure.fun, result |-> libffi_result,
                          args |-> a.args, user_data |-> closure.user_data]>>,
           abort |-> FALSE]

(***************************************************************************)
(* The host: the indirect function table and the four primitives.  A slot  *)
(* is free, reserved (allocated for a closure) or prepared (callable with  *)
(* the signature it was prepared with).                                    *)
(***************************************************************************)
Slots == 1..MaxClosures
FreeSlot == [state |-> "free", argument_types |-> <<>>, result_types |-> <<>>, user_data |-> NULL]

WasmSize(code) == IF code \in {FFI_WASM_TYPE_I32, FFI_WASM_TYPE_F32} THEN 4 ELSE 8
RECURSIVE WasmSizes(_)
WasmSizes(codes) == IF codes = <<>> THEN 0 ELSE WasmSize(Head(codes)) + WasmSizes(Tail(codes))

\* every outcome of reserving a slot: any free slot, or an error (the table
\* is the program's, the host may have no room in it at any time)
wasix_closure_allocate(tbl) ==
  {[table |-> [tbl EXCEPT ![s].state = "reserved"], code |-> s, error |-> FALSE] :
     s \in {x \in Slots : tbl[x].state = "free"}}
  \cup {[table |-> tbl, code |-> NULL, error |-> TRUE]}

wasix_closure_free(tbl, code) ==
  IF code \notin Slots \/ tbl[code].state = "free" THEN [table |-> tbl, error |-> TRUE]
  ELSE [table |-> [tbl EXCEPT ![code] = FreeSlot], error |-> FALSE]

wasix_closure_prepare(tbl, code, argument_types, argument_types_len, result_types, result_types_len, user_data) ==
  IF code \notin Slots \/ tbl[code].state = "free" THEN [table |-> tbl, error |-> TRUE]
  ELSE [table |-> [tbl EXCEPT ![code] =
                     [state |-> "prepared",
                      argument_types |-> SubSeq(argument_types, 1, argument_types_len),
                      result_types |-> SubSeq(result_types, 1, result_types_len),
                      user_data |-> user_data]],
        error |-> FALSE]

\* the function at a prepared slot is the closure: the host hands the values
\* to the backing function in a buffer of its own and copies the results out.
\* The host decodes the buffers by the signature of the slot, so buffers of
\* another length are an error.
wasix_call_dynamic(h, c, tbl, cls, m, function, values, values_len, results, results_len) ==
  IF function \notin Slots \/ tbl[function].state # "prepared"
     \/ values_len # WasmSizes(tbl[function].argument_types)
     \/ results_len # WasmSizes(tbl[function].result_types)
  THEN [mem |-> m, handler |-> <<>>, abort |-> FALSE, error |-> TRUE]
  ELSE LET m1 == WriteBytes(m, WasmArgsAddr, ReadBytes(m, values, values_len))
           b == closure_backing_function(h, c, m1, WasmArgsAddr, WasmResultsAddr,
                                         cls[tbl[function].user_data])
       IN [mem |-> IF b.abort THEN b.mem
                   ELSE WriteBytes(b.mem, results, ReadBytes(b.mem, WasmResultsAddr, results_len)),
           handler |-> b.handler, abort |-> b.abort, error |-> FALSE]

\* the impl_ wrappers letting a host error through
impl_abort_never(error) == FALSE

\* the impl_ wrappers of the four primitives: abort() on a non-zero error
impl_abort(error) == error

Next ==
  \/ ffi_prep_cif_machdep
  \/ ffi_prep_cif_machdep_var

Spec == Init /\ [][Next]_vars

(***************************************************************************)
(* Closures of the non-emscripten build.  An allocation is a header word   *)
(* holding the table slot, followed by the ffi_closure the caller gets.    *)
(***************************************************************************)
ClosureIds == 1..MaxClosures
\* what a caller passes as codeloc: a table slot, or no slot at all
Codelocs == Slots \cup {NULL}
DeadClosure ==
  [live |-> FALSE, code |-> NULL, cif |-> "unset", fun |-> "unset", user_data |-> "unset",
   ftramp |-> NULL]

ffi_closure_alloc ==
  /\ ~aborted
  /\ variant = Wasix
  /\ \E c \in ClosureIds :
       /\ ~closures[c].live
       /\ \E r \in wasix_closure_allocate(table) :
            /\ table' = r.table
            /\ hostError' = r.error
            /\ aborted' = impl_abort(r.error)
            /\ closures' = IF r.error THEN closures
                           ELSE [closures EXCEPT ![c] = [DeadClosure EXCEPT !.live = TRUE,
                                                                           !.code = r.code]]
  /\ lastOp' = "ffi_closure_alloc"
  /\ hostCall' = <<>>
  /\ handlerCall' = <<>>
  /\ UNCHANGED <<stack_pointer, freeTableIndexes, applied, variant, types, types0, cif, nullKind, status, mem>>

\* ffi_closure_free releasing the slot ffi_prep_closure_loc was given, not
\* the one in the header of the allocation
ffi_closure_free_ftramp ==
  /\ ~aborted
  /\ variant = Wasix
  /\ \E c \in ClosureIds :
       /\ closures[c].live
       /\ LET r == wasix_closure_free(table, closures[c].ftramp)
          IN /\ table' = r.table
             /\ hostError' = r.error
             /\ aborted' = impl_abort(r.error)
             /\ closures' = IF r.error THEN closures ELSE [closures EXCEPT ![c] = DeadClosure]
  /\ lastOp' = "ffi_closure_free"
  /\ hostCall' = <<>>
  /\ handlerCall' = <<>>
  /\ UNCHANGED <<stack_pointer, freeTableIndexes, applied, variant, types, types0, cif, nullKind, status, mem>>

ffi_closure_free ==
  /\ ~aborted
  /\ variant = Wasix
  /\ \E c \in ClosureIds :
       /\ closures[c].live
       /\ LET r == wasix_closure_free(table, closures[c].code)
          IN /\ table' = r.table
             /\ hostError' = r.error
             /\ aborted' = impl_abort(r.error)
             /\ closures' = IF r.error THEN closures ELSE [closures EXCEPT ![c] = DeadClosure]
  /\ lastOp' = "ffi_closure_free"
  /\ hostCall' = <<>>
  /\ handlerCall' = <<>>
  /\ UNCHANGED <<stack_pointer, freeTableIndexes, applied, variant, types, types0, cif, nullKind, status, mem>>

\* the signature ffi_prep_closure_loc computes for the host
closure_signature(h, c) ==
  LET indirect_return == return_indirect(h, c.rtype)
      rcount == arguments_count(h, c.rtype)
      acount == arguments_count_args(h, c, 1)
      rtypes == place_type(h, c.rtype)
      atypes == place_type_args(h, c, 1)
  IN [abort |-> indirect_return.abort \/ rcount.abort \/ acount.abort
                \/ rtypes.abort \/ atypes.abort,
      argument_types |-> IF indirect_return.v THEN rtypes.v \o atypes.v ELSE atypes.v,
      argument_count |-> IF indirect_return.v THEN rcount.v + acount.v ELSE acount.v,
      result_types |-> IF indirect_return.v THEN <<>> ELSE rtypes.v,
      result_count |-> IF indirect_return.v THEN 0 ELSE rcount.v]

ffi_prep_closure_loc ==
  /\ ~aborted
  /\ variant = Wasix
  /\ \E c \in ClosureIds :
       /\ closures[c].live
       /\ \E sig \in {closure_signature(types, cif)}, codeloc \in Codelocs, fun \in Handlers :
          LET prepared == [closures EXCEPT ![c] = [@ EXCEPT !.cif = "cif", !.fun = fun,
                                                            !.user_data = "user_data",
                                                            !.ftramp = codeloc]]
              r == wasix_closure_prepare(table, codeloc, sig.argument_types, sig.argument_count,
                                         sig.result_types, sig.result_count, c)
          IN IF cif.abi = FFI_WASM32_EMSCRIPTEN
             THEN /\ status' = FFI_BAD_ABI
                  /\ hostError' = FALSE
                  /\ hostCall' = <<>>
                  /\ UNCHANGED <<aborted, closures, table>>
             ELSE IF sig.abort
             THEN /\ aborted' = TRUE
                  /\ hostError' = FALSE
                  /\ hostCall' = <<>>
                  /\ UNCHANGED <<status, closures, table>>
             ELSE /\ closures' = prepared
                  /\ hostCall' = <<[function |-> "wasix_closure_prepare", code |-> codeloc,
                                    argument_types |-> SubSeq(sig.argument_types, 1, sig.argument_count),
                                    result_types |-> SubSeq(sig.result_types, 1, sig.result_count),
                                    argument_count |-> sig.argument_count,
                                    result_count |-> sig.result_count,
                                    arg_types_ptr |-> Len(sig.argument_types),
                                    result_types_ptr |-> Len(sig.result_types),
                                    user_data |-> c]>>
                  /\ table' = r.table
                  /\ hostError' = r.error
                  /\ aborted' = impl_abort(r.error)
                  /\ status' = IF impl_abort(r.error) THEN status ELSE FFI_OK
  /\ lastOp' = "ffi_prep_closure_loc"
  /\ handlerCall' = <<>>
  /\ UNCHANGED <<stack_pointer, freeTableIndexes, applied, variant, types, types0, cif, nullKind, mem>>

(***************************************************************************)
(* ffi_call of the non-emscripten build.                                   *)
(***************************************************************************)
\* the values the caller passes: sixteen bytes per argument, from a seed
ValueSeeds == {0, 127}
\* byte j of the value of argument i
ArgByte(seed, i, j) == (seed + 16 * (i - 1) + j) % 256

\* memory as the caller hands it over: its argument values at avalue[i],
\* zeroes elsewhere
CallerMemory(seed, nargs) ==
  [a \in Addrs |->
     IF a >= ArgValueAddr(1) /\ a < ArgValueAddr(nargs + 1)
     THEN ArgByte(seed, ((a - ArgValueAddr(1)) \div 16) + 1, ((a - ArgValueAddr(1)) % 16) + 1)
     ELSE 0]

\* the buffers of the call are gone when it returns
PopFrame(m) == [a \in Addrs |-> IF a >= ValuesAddr THEN 0 ELSE m[a]]

\* call_frame leaving the slot of an indirect return out of the length
call_frame_no_return_slot(h, c, m, rvalue) ==
  LET indirect_return == return_indirect(h, c.rtype)
      rsize == type_size(h, c.rtype)
      asize == type_size_args(h, c, 1)
      total_size == asize.v
      m1 == IF indirect_return.v THEN WriteBytes(m, ValuesAddr, PointerBytes(rvalue)) ELSE m
      p == place_value_args(h, c, 1, m1, IF indirect_return.v THEN ValuesAddr + 4 ELSE ValuesAddr)
  IN IF indirect_return.abort \/ rsize.abort \/ asize.abort THEN [abort |-> TRUE]
     ELSE [abort |-> p.abort, mem |-> p.mem, current_value |-> p.cursor, values_len |-> total_size,
           results_len |-> IF indirect_return.v THEN 0 ELSE rsize.v]

\* the values buffer and the lengths ffi_call hands the host
call_frame(h, c, m, rvalue) ==
  LET indirect_return == return_indirect(h, c.rtype)
      rsize == type_size(h, c.rtype)
      asize == type_size_args(h, c, 1)
      total_size == (IF indirect_return.v THEN rsize.v ELSE 0) + asize.v
      m1 == IF indirect_return.v THEN WriteBytes(m, ValuesAddr, PointerBytes(rvalue)) ELSE m
      p == place_value_args(h, c, 1, m1, IF indirect_return.v THEN ValuesAddr + 4 ELSE ValuesAddr)
  IN IF indirect_return.abort \/ rsize.abort \/ asize.abort THEN [abort |-> TRUE]
     ELSE [abort |-> p.abort, mem |-> p.mem, current_value |-> p.cursor, values_len |-> total_size,
           results_len |-> IF indirect_return.v THEN 0 ELSE rsize.v]

ffi_call ==
  /\ ~aborted
  /\ variant = Wasix
  /\ \E fn \in {s \in Slots : table[s].state # "free"}, seed \in ValueSeeds :
     \E m0 \in {CallerMemory(seed, cif.nargs)} :
     \E f \in {call_frame(types, cif, m0, RvalueAddr)} :
          IF f.abort
          THEN /\ aborted' = TRUE
               /\ mem' = m0
               /\ hostCall' = <<>>
               /\ handlerCall' = <<>>
               /\ hostError' = FALSE
          ELSE \E r \in {wasix_call_dynamic(types, cif, table, closures, f.mem, fn, ValuesAddr,
                                           f.values_len, RvalueAddr, f.results_len)} :
                  /\ hostCall' = <<[function |-> fn,
                                    values |-> ReadBytes(f.mem, ValuesAddr, f.values_len),
                                    values_len |-> f.values_len,
                                    current_value |-> f.current_value,
                                    results_len |-> f.results_len]>>
                  /\ handlerCall' = r.handler
                  /\ hostError' = r.error
                  /\ aborted' = (impl_abort(r.error) \/ r.abort)
                  /\ mem' = PopFrame(r.mem)
  /\ lastOp' = "ffi_call"
  /\ UNCHANGED <<stack_pointer, freeTableIndexes, applied, variant, types, types0, cif, nullKind, status, table, closures>>

(***************************************************************************)
(* SpecCall: the non-emscripten build with calls and closures.             *)
(***************************************************************************)
\* what the two user descriptors are: small structs, and a long double
\* descriptor of the caller's own
CallUserShapes ==
  {StructDescr(PredefinedTypes, els) :
     els \in {<<>>, <<ffi_type_sint32>>, <<ffi_type_sint32, ffi_type_sint32>>,
              <<ffi_type_longdouble>>}}
  \cup {PredefinedTypes[ffi_type_longdouble]}

CallHeaps ==
  {PredefinedTypes @@ (FirstUser :> a) @@ (LastUser :> b) : a, b \in CallUserShapes}

CallArgChoices ==
  {ffi_type_uint8, ffi_type_sint16, ffi_type_sint32, ffi_type_double, ffi_type_longdouble}
  \cup UserIds
CallRTypeChoices == {NULL, ffi_type_void} \cup CallArgChoices

\* the first argument is any of the choices, the others an int or a long double
CallArgVectors ==
  {a \in SeqsUpTo(CallArgChoices, MaxCallArgs) :
     \A i \in 2..Len(a) : a[i] \in {ffi_type_sint32, ffi_type_longdouble}}

\* the code never looks at the abi and at a descriptor together: the tags
\* other than FFI_WASM32 go with the predefined descriptors
CallCifs(h) ==
  {c \in {Cif(a, Len(v), v, r, 0) : a \in Abis, v \in CallArgVectors, r \in CallRTypeChoices} :
     /\ Relevant(h, c)
     /\ c.abi # FFI_WASM32 => CifRoots(c) \cap UserIds = {}}

InitCall ==
  /\ variant = Wasix
  /\ types \in CallHeaps
  /\ \E c \in CallCifs(types) : cif = [c EXCEPT !.nfixedargs = c.nargs + 1]
  \* arguments_count and place_type read through a null cif->rtype
  /\ nullKind \in IF cif.rtype = NULL
                  THEN {FFI_TYPE_VOID, FFI_TYPE_SINT32, FFI_TYPE_COMPLEX} ELSE {FFI_TYPE_VOID}
  /\ types0 = types
  /\ status = NoStatus
  /\ lastOp = "init"
  /\ aborted = FALSE
  /\ mem = [a \in Addrs |-> 0]
  /\ table = [s \in Slots |-> FreeSlot]
  /\ closures = [c \in ClosureIds |-> DeadClosure]
  /\ NoObservations
  /\ applied = <<>>
  /\ stack_pointer = StackTop
  /\ freeTableIndexes = <<>>

NextCall ==
  \/ ffi_prep_cif_machdep
  \/ ffi_prep_cif_machdep_var
  \/ ffi_closure_alloc
  \/ ffi_closure_free
  \/ ffi_prep_closure_loc
  \/ ffi_call

SpecCall == InitCall /\ [][NextCall]_vars


(***************************************************************************)
(* SpecAbi: the classifier (type_size, return_indirect, arguments_count,   *)
(* place_type), the lowerer (place_value) and the raiser (take_value) of   *)
(* the non-emscripten build, applied to the types of a CIF of one          *)
(* argument and to one argument value.                                     *)
(***************************************************************************)
\* descriptors of the kinds no predefined descriptor has
AbiShapes ==
  {Descr(FFI_TYPE_INT, 4, 4, <<>>), ComplexDescr(PredefinedTypes, ffi_type_double)}

AbiHeaps ==
  {PredefinedTypes @@ (FirstUser :> a)
     @@ (LastUser :> StructDescr(PredefinedTypes, <<ffi_type_sint32, ffi_type_sint32>>)) :
     a \in AbiShapes}

\* argument values whose first two bytes take the values around the sign bit
AbiSeeds == {0, 126, 127, 254, 255}

\* where a lowered value starts: the start of the buffer, or after a slot or
\* a single byte (the buffer is not aligned)
Cursors == {ValuesAddr, ValuesAddr + 1, ValuesAddr + 4}

InitAbi ==
  /\ variant = Wasix
  /\ types \in AbiHeaps
  /\ \E t \in DOMAIN types : \E r \in {NULL, t} : cif = Cif(FFI_WASM32, 1, <<t>>, r, 1)
  /\ nullKind \in IF cif.rtype = NULL
                  THEN {FFI_TYPE_VOID, FFI_TYPE_SINT32, FFI_TYPE_COMPLEX} ELSE {FFI_TYPE_VOID}
  /\ types0 = types
  /\ status = NoStatus
  /\ lastOp = "init"
  /\ aborted = FALSE
  /\ \E seed \in AbiSeeds : mem = CallerMemory(seed, 1)
  /\ table = [s \in Slots |-> FreeSlot]
  /\ closures = [c \in ClosureIds |-> DeadClosure]
  /\ NoObservations
  /\ applied = <<>>
  /\ stack_pointer = StackTop
  /\ freeTableIndexes = <<>>

\* the types the functions are applied to
AbiTypes == {ArgType(cif, 1), cif.rtype}

apply_type_size ==
  /\ ~aborted
  /\ \E t \in AbiTypes : \E r \in {type_size(types, t)} :
       /\ applied' = <<[op |-> "type_size", type |-> t, result |-> r]>>
       /\ aborted' = r.abort
  /\ UNCHANGED <<stack_pointer, freeTableIndexes, variant, types, types0, cif, nullKind, status, lastOp, mem, table, closures,
                 hostCall, handlerCall, hostError>>

apply_return_indirect ==
  /\ ~aborted
  /\ \E t \in AbiTypes : \E r \in {return_indirect(types, t)} :
       /\ applied' = <<[op |-> "return_indirect", type |-> t, result |-> r]>>
       /\ aborted' = r.abort
  /\ UNCHANGED <<stack_pointer, freeTableIndexes, variant, types, types0, cif, nullKind, status, lastOp, mem, table, closures,
                 hostCall, handlerCall, hostError>>

apply_arguments_count ==
  /\ ~aborted
  /\ \E t \in AbiTypes : \E r \in {arguments_count(types, t)} :
       /\ applied' = <<[op |-> "arguments_count", type |-> t, result |-> r]>>
       /\ aborted' = r.abort
  /\ UNCHANGED <<stack_pointer, freeTableIndexes, variant, types, types0, cif, nullKind, status, lastOp, mem, table, closures,
                 hostCall, handlerCall, hostError>>

apply_place_type ==
  /\ ~aborted
  /\ \E t \in AbiTypes : \E r \in {place_type(types, t)} :
       /\ applied' = <<[op |-> "place_type", type |-> t, result |-> r]>>
       /\ aborted' = r.abort
  /\ UNCHANGED <<stack_pointer, freeTableIndexes, variant, types, types0, cif, nullKind, status, lastOp, mem, table, closures,
                 hostCall, handlerCall, hostError>>

\* place_value(cif->arg_types[0], avalue[0], &values)
apply_place_value ==
  /\ ~aborted
  /\ \E values \in Cursors :
     \E r \in {place_value(types, ArgType(cif, 1), ArgValueAddr(1), mem, values)} :
       /\ applied' = <<[op |-> "place_value", type |-> ArgType(cif, 1), values |-> values,
                        cursor |-> r.cursor]>>
       /\ mem' = r.mem
       /\ aborted' = r.abort
  /\ UNCHANGED <<stack_pointer, freeTableIndexes, variant, types, types0, cif, nullKind, status, lastOp, table, closures,
                 hostCall, handlerCall, hostError>>

\* take_value(cif->arg_types[0], &values) where place_value has just written
apply_take_value ==
  /\ ~aborted
  /\ applied # <<>>
  /\ applied[1].op = "place_value"
  /\ \E r \in {take_value(types, ArgType(cif, 1), mem, applied[1].values)} :
       /\ applied' = <<[op |-> "take_value", type |-> ArgType(cif, 1),
                        values |-> applied[1].values, placed |-> applied[1].cursor,
                        result |-> r.result, cursor |-> r.cursor]>>
       /\ aborted' = r.abort
  /\ UNCHANGED <<stack_pointer, freeTableIndexes, variant, types, types0, cif, nullKind, status, lastOp, mem, table, closures,
                 hostCall, handlerCall, hostError>>

NextAbi ==
  \/ apply_type_size
  \/ apply_return_indirect
  \/ apply_arguments_count
  \/ apply_place_type
  \/ apply_place_value
  \/ apply_take_value

SpecAbi == InitAbi /\ [][NextAbi]_vars

(***************************************************************************)
(* SpecJs: closures of the emscripten build.  The table is the wasm        *)
(* indirect function table; a slot is free when it is on the list          *)
(* freeTableIndexes, and holds what setWasmTableEntry last put there.      *)
(***************************************************************************)
\* unbox_small_structs: a struct of one element, at most 16 bytes large, is
\* replaced by its element, an empty one by void
RECURSIVE unbox_small_structs(_, _)
unbox_small_structs(h, type_ptr) ==
  LET d == h[type_ptr]
  IN IF d.type # FFI_TYPE_STRUCT THEN [ptr |-> type_ptr, id |-> d.type]
     ELSE IF d.size > 16 THEN [ptr |-> type_ptr, id |-> FFI_TYPE_STRUCT]
     ELSE IF d.elements = <<>> THEN [ptr |-> type_ptr, id |-> FFI_TYPE_VOID]
     ELSE IF Len(d.elements) = 1 THEN unbox_small_structs(h, d.elements[1])
     ELSE [ptr |-> type_ptr, id |-> FFI_TYPE_STRUCT]

\* a signature under construction, or the Error thrown instead
Sig(s) == [sig |-> s, throw |-> FALSE]
Throw == [sig |-> <<>>, throw |-> TRUE]

\* the letters of the return type
js_rtype_sig(id) ==
  CASE id = FFI_TYPE_VOID -> Sig(<<"v">>)
    [] id \in {FFI_TYPE_STRUCT, FFI_TYPE_LONGDOUBLE} -> Sig(<<"v", "i">>)
    [] id \in Int32Kinds \cup {FFI_TYPE_POINTER} -> Sig(<<"i">>)
    [] id = FFI_TYPE_FLOAT -> Sig(<<"f">>)
    [] id = FFI_TYPE_DOUBLE -> Sig(<<"d">>)
    [] id \in {FFI_TYPE_UINT64, FFI_TYPE_SINT64} -> Sig(<<"j">>)
    [] OTHER -> Throw

\* the letters of the fixed arguments from argument i on; an argument past
\* nargs has no type id
RECURSIVE js_args_sig(_, _, _)
js_args_sig(h, c, i) ==
  IF i > c.nfixedargs THEN Sig(<<>>)
  ELSE IF i > c.nargs THEN Throw
  ELSE LET id == unbox_small_structs(h, ArgType(c, i)).id
           a == CASE id \in Int32Kinds \cup {FFI_TYPE_POINTER, FFI_TYPE_STRUCT} -> Sig(<<"i">>)
                  [] id = FFI_TYPE_FLOAT -> Sig(<<"f">>)
                  [] id = FFI_TYPE_DOUBLE -> Sig(<<"d">>)
                  [] id = FFI_TYPE_LONGDOUBLE -> Sig(<<"j", "j">>)
                  [] id \in {FFI_TYPE_UINT64, FFI_TYPE_SINT64} -> Sig(<<"j">>)
                  [] OTHER -> Throw
           r == js_args_sig(h, c, i + 1)
       IN IF a.throw \/ r.throw THEN Throw ELSE Sig(a.sig \o r.sig)

\* the signature without the letter of the varargs pointer
js_signature_no_varargs_letter(h, c) ==
  LET r == js_rtype_sig(unbox_small_structs(h, c.rtype).id)
      a == js_args_sig(h, c, 1)
  IN IF r.throw \/ a.throw THEN Throw ELSE Sig(r.sig \o a.sig)

\* the signature of the trampoline
js_signature(h, c) ==
  LET r == js_rtype_sig(unbox_small_structs(h, c.rtype).id)
      a == js_args_sig(h, c, 1)
  IN IF r.throw \/ a.throw THEN Throw
     ELSE Sig(r.sig \o a.sig \o (IF c.nfixedargs < c.nargs THEN <<"i">> ELSE <<>>))

(***************************************************************************)
(* ffi_call_js and the trampoline of a closure.  A value passed between    *)
(* JavaScript and wasm is the little-endian bytes of its wasm kind: four   *)
(* for i and f, eight for j and d.                                         *)
(***************************************************************************)
\* the one element of a set of one
Only(S) == CHOOSE x \in S : TRUE

\* HEAP8.subarray(a, a + Len(bs)).set(bs), and the typed stores: the bytes bs
\* written from address a on, from byte k of bs
RECURSIVE HeapSetFrom(_, _, _, _)
HeapSetFrom(m, a, bs, k) ==
  IF k > Len(bs) THEN m ELSE HeapSetFrom([m EXCEPT ![a + k - 1] = bs[k]], a, bs, k + 1)
HeapSet(m, a, bs) == HeapSetFrom(m, a, bs, 1)

ALIGN_ADDRESS(addr, align) == addr - (addr % align)
STACK_ALLOC(stack, size, align) == ALIGN_ADDRESS(stack - size, align)
\* stackRestore(p) followed by stackAlloc(0): the stack pointer is kept
\* aligned to sixteen bytes
stackAlloc(p) == ALIGN_ADDRESS(p, 16)
\* DEREF_U32 of a pointer
DEREF_U32(m, addr) == m[addr] + 256 * m[addr + 1]

\* what ffi_call_js has built so far: the values to pass, the memory, its
\* stack cursor, or the Error thrown
CallArgs(args, m, cur) == [args |-> args, mem |-> m, cur |-> cur, throw |-> FALSE]
CallThrow(m, cur) == [args |-> <<>>, mem |-> m, cur |-> cur, throw |-> TRUE]

\* the loop of ffi_call_js over the fixed arguments, from argument i on
RECURSIVE js_fixed_args(_, _, _, _, _, _, _)
js_fixed_args(h, c, avalue, m, cur, i, args) ==
  IF i > c.nfixedargs THEN CallArgs(args, m, cur)
  ELSE LET arg_ptr == avalue[i]
           u == unbox_small_structs(h, ArgType(c, i))
           push(v) == js_fixed_args(h, c, avalue, m, cur, i + 1, args \o v)
       IN CASE u.id \in {FFI_TYPE_INT, FFI_TYPE_SINT32, FFI_TYPE_UINT32, FFI_TYPE_POINTER,
                         FFI_TYPE_FLOAT} -> push(<<ReadBytes(m, arg_ptr, 4)>>)
            [] u.id \in {FFI_TYPE_DOUBLE, FFI_TYPE_UINT64, FFI_TYPE_SINT64} ->
                 push(<<ReadBytes(m, arg_ptr, 8)>>)
            [] u.id \in {FFI_TYPE_UINT8} -> push(<<ZeroExtend(ReadBytes(m, arg_ptr, 1))>>)
            [] u.id \in {FFI_TYPE_SINT8} -> push(<<SignExtend(ReadBytes(m, arg_ptr, 1))>>)
            [] u.id \in {FFI_TYPE_UINT16} -> push(<<ZeroExtend(ReadBytes(m, arg_ptr, 2))>>)
            [] u.id \in {FFI_TYPE_SINT16} -> push(<<SignExtend(ReadBytes(m, arg_ptr, 2))>>)
            [] u.id = FFI_TYPE_LONGDOUBLE ->
                 push(<<ReadBytes(m, arg_ptr, 8), ReadBytes(m, arg_ptr + 8, 8)>>)
            [] u.id = FFI_TYPE_STRUCT ->
                 LET size == h[u.ptr].size
                     p == STACK_ALLOC(cur, size, h[u.ptr].alignment)
                 IN js_fixed_args(h, c, avalue, HeapSet(m, p, ReadBytes(m, arg_ptr, size)), p,
                                  i + 1, args \o <<PointerBytes(p)>>)
            [] OTHER -> CallThrow(m, cur)

\* the loop over the variadic arguments, from the last one down to argument
\* i; info is struct_arg_info
RECURSIVE js_var_args(_, _, _, _, _, _, _)
js_var_args(h, c, avalue, m, cur, i, info) ==
  IF i <= c.nfixedargs THEN [mem |-> m, cur |-> cur, info |-> info, throw |-> FALSE]
  ELSE LET arg_ptr == avalue[i]
           u == unbox_small_structs(h, ArgType(c, i))
           copy(size, align) ==
             LET p == STACK_ALLOC(cur, size, align)
             IN js_var_args(h, c, avalue, HeapSet(m, p, ReadBytes(m, arg_ptr, size)), p,
                            i - 1, info)
       IN CASE u.id \in {FFI_TYPE_UINT8, FFI_TYPE_SINT8} -> copy(1, 1)
            [] u.id \in {FFI_TYPE_UINT16, FFI_TYPE_SINT16} -> copy(2, 2)
            [] u.id \in {FFI_TYPE_INT, FFI_TYPE_UINT32, FFI_TYPE_SINT32, FFI_TYPE_POINTER,
                         FFI_TYPE_FLOAT} -> copy(4, 4)
            [] u.id \in {FFI_TYPE_DOUBLE, FFI_TYPE_UINT64, FFI_TYPE_SINT64} -> copy(8, 8)
            [] u.id = FFI_TYPE_LONGDOUBLE -> copy(16, 8)
            [] u.id = FFI_TYPE_STRUCT ->
                 LET p == STACK_ALLOC(cur, 4, 4)
                 IN js_var_args(h, c, avalue, m, p, i - 1,
                                info \o <<[arg_target |-> p, arg_ptr |-> arg_ptr,
                                           size |-> h[u.ptr].size, align |-> h[u.ptr].alignment]>>)
            [] OTHER -> [mem |-> m, cur |-> cur, info |-> info, throw |-> TRUE]

\* the loop over struct_arg_info, from entry k on
RECURSIVE js_var_structs(_, _, _, _)
js_var_structs(m, cur, info, k) ==
  IF k > Len(info) THEN [mem |-> m, cur |-> cur]
  ELSE LET p == STACK_ALLOC(cur, info[k].size, info[k].align)
           m1 == HeapSet(m, p, ReadBytes(m, info[k].arg_ptr, info[k].size))
       IN js_var_structs(HeapSet(m1, info[k].arg_target, PointerBytes(p)), p, info, k + 1)

\* the values ffi_call_js passes to the table entry, and its stack cursor
js_call_args(h, c, m, sp, rvalue, avalue) ==
  LET rtype_id == unbox_small_structs(h, c.rtype).id
      ret_by_arg == rtype_id \in {FFI_TYPE_LONGDOUBLE, FFI_TYPE_STRUCT}
      var_args(f) ==
        Only({IF v.throw THEN CallThrow(m, sp)
              ELSE Only({CallArgs(f.args \o <<PointerBytes(v.cur)>>, s.mem, s.cur) :
                           s \in {js_var_structs(v.mem, v.cur, v.info, 1)}}) :
                v \in {js_var_args(h, c, avalue, f.mem, f.cur, c.nargs, <<>>)}})
  IN Only({IF rtype_id = FFI_TYPE_COMPLEX \/ f.throw THEN CallThrow(m, sp)
           ELSE IF c.nfixedargs = c.nargs THEN f
           ELSE var_args(f) :
             f \in {js_fixed_args(h, c, avalue, m, sp, 1,
                                  IF ret_by_arg THEN <<PointerBytes(rvalue)>> ELSE <<>>)}})

\* what ffi_prep_closure_loc_js leaves in the variables its trampoline
\* closes over
js_trampoline(h, c, closure) ==
  [closure |-> closure, nargs |-> c.nargs, nfixedargs |-> c.nfixedargs,
   ids |-> [i \in 1..c.nargs |-> unbox_small_structs(h, ArgType(c, i)).id],
   infos |-> [i \in 1..c.nargs |->
                LET d == h[unbox_small_structs(h, ArgType(c, i)).ptr]
                IN [size |-> d.size, align |-> d.alignment]],
   ret_by_arg |-> unbox_small_structs(h, c.rtype).id \in {FFI_TYPE_STRUCT, FFI_TYPE_LONGDOUBLE},
   sig |-> js_signature(h, c).sig]

\* the loop of the trampoline over the fixed arguments, from argument
\* carg_idx on (counted from 1); jsarg_idx counts the incoming values taken
RECURSIVE trampoline_fixed(_, _, _, _, _, _, _)
trampoline_fixed(tr, args, m, cur_ptr, args_ptr, carg_idx, jsarg_idx) ==
  IF carg_idx > tr.nfixedargs THEN [mem |-> m, cur_ptr |-> cur_ptr, jsarg_idx |-> jsarg_idx]
  ELSE LET cur_arg == args[jsarg_idx + 1]
           arg_type_id == tr.ids[carg_idx]
           arg_size == tr.infos[carg_idx].size
           store(size, align, bytes, taken) ==
             LET p == STACK_ALLOC(cur_ptr, size, align)
                 m1 == HeapSet(m, args_ptr + 4 * (carg_idx - 1), PointerBytes(p))
             IN trampoline_fixed(tr, args, HeapSet(m1, p, bytes), p, args_ptr, carg_idx + 1,
                                 jsarg_idx + taken)
       IN CASE arg_type_id \in {FFI_TYPE_UINT8, FFI_TYPE_SINT8} -> store(1, 4, SubSeq(cur_arg, 1, 1), 1)
            [] arg_type_id \in {FFI_TYPE_UINT16, FFI_TYPE_SINT16} -> store(2, 4, SubSeq(cur_arg, 1, 2), 1)
            [] arg_type_id \in {FFI_TYPE_INT, FFI_TYPE_UINT32, FFI_TYPE_SINT32, FFI_TYPE_POINTER,
                                FFI_TYPE_FLOAT} -> store(4, 4, cur_arg, 1)
            [] arg_type_id = FFI_TYPE_STRUCT ->
                 store(arg_size, tr.infos[carg_idx].align,
                       ReadBytes(m, DEREF_U32(cur_arg, 1), arg_size), 1)
            [] arg_type_id \in {FFI_TYPE_DOUBLE, FFI_TYPE_UINT64, FFI_TYPE_SINT64} ->
                 store(8, 8, cur_arg, 1)
            [] arg_type_id = FFI_TYPE_LONGDOUBLE -> store(16, 8, cur_arg \o args[jsarg_idx + 2], 2)
            [] OTHER -> trampoline_fixed(tr, args, m, cur_ptr, args_ptr, carg_idx + 1, jsarg_idx + 1)

\* a read through a pointer that may point anywhere: memory outside the
\* model holds zeroes
ReadWild(m, a, n) == [i \in 1..n |-> IF a + i - 1 \in DOMAIN m THEN m[a + i - 1] ELSE 0]

\* the loop of the trampoline over the variadic arguments
RECURSIVE trampoline_var(_, _, _, _, _, _)
trampoline_var(tr, m, cur_ptr, args_ptr, carg_idx, varargs) ==
  IF carg_idx > tr.nargs THEN [mem |-> m, cur_ptr |-> cur_ptr]
  ELSE IF tr.ids[carg_idx] = FFI_TYPE_STRUCT
  THEN LET arg_size == tr.infos[carg_idx].size
           struct_ptr == DEREF_U32(m, varargs)
           p == STACK_ALLOC(cur_ptr, arg_size, tr.infos[carg_idx].align)
           m1 == HeapSet(m, p, ReadWild(m, struct_ptr, arg_size))
       IN trampoline_var(tr, HeapSet(m1, args_ptr + 4 * (carg_idx - 1), PointerBytes(p)), p,
                         args_ptr, carg_idx + 1, varargs + 4)
  ELSE trampoline_var(tr, HeapSet(m, args_ptr + 4 * (carg_idx - 1), PointerBytes(varargs)),
                      cur_ptr, args_ptr, carg_idx + 1, varargs + 4)

\* the user handlers of the emscripten build: result_handler writes its
\* first argument, cut or padded to the size of the return type, to the
\* result area and then writes through every argument pointer it was given;
\* throw_handler throws; nested_handler calls, through ffi_call, the slot it
\* was called from and returns what that call returns (the inner call takes
\* the handler as result_handler)
result_handler(h, m, c, result, args) ==
  LET n == IF h[c.rtype].type = FFI_TYPE_VOID THEN 0 ELSE h[c.rtype].size
      size1 == IF c.nargs = 0 THEN 0 ELSE h[ArgType(c, 1)].size
      m1 == HeapSet(m, result, [j \in 1..n |-> IF j <= size1 THEN m[args[1] + j - 1] ELSE 0])
  IN write_handler(m1, c, 1, args)

Funs == {"result_handler", "throw_handler", "nested_handler"}

RECURSIVE ffi_call_js(_, _, _, _, _, _, _, _, _, _)
RECURSIVE trampoline(_, _, _, _, _, _, _, _, _, _)

\* getWasmTableEntry(CLOSURE__fun(closure))(cif, ret_ptr, args_ptr, user_data):
\* the memory and the stack pointer the handler leaves, whether it threw,
\* and the trampoline invocations under it
js_handler(h, c, tbl, cls, fun, m, sp, fn, ret_ptr, argv, depth) ==
  CASE fun = "throw_handler" -> [mem |-> m, sp |-> sp, throw |-> TRUE, calls |-> <<>>]
    [] fun = "nested_handler" /\ depth = 0 ->
         Only({[mem |-> r.mem, sp |-> r.sp, throw |-> r.throw, calls |-> r.calls] :
                 r \in {ffi_call_js(h, c, tbl, cls, m, sp, fn, ret_ptr, argv, 1)}})
    [] OTHER ->
         [mem |-> result_handler(h, m, c, ret_ptr, argv), sp |-> sp, throw |-> FALSE, calls |-> <<>>]

\* the end of an invocation whose handler left hd
trampoline_exit(tr, call, hd, orig_stack_ptr, ret_ptr) ==
  IF hd.throw
  THEN [mem |-> hd.mem, sp |-> hd.sp, throw |-> TRUE, result |-> <<>>,
        calls |-> <<[call EXCEPT !.exit = hd.sp, !.threw = TRUE]>> \o hd.calls]
  ELSE [mem |-> hd.mem, sp |-> orig_stack_ptr, throw |-> FALSE,
        result |-> IF tr.ret_by_arg THEN <<>>
                   ELSE CASE tr.sig[1] \in {"i", "f"} -> ReadBytes(hd.mem, ret_ptr, 4)
                          [] tr.sig[1] \in {"j", "d"} -> ReadBytes(hd.mem, ret_ptr, 8)
                          [] OTHER -> <<>>,
        calls |-> <<[call EXCEPT !.exit = orig_stack_ptr]>> \o hd.calls]

\* the call of the handler once the loops have left f and v
trampoline_call(h, c, tbl, cls, tr, fn, args, depth, orig_stack_ptr, ret_ptr, args_ptr, f, v) ==
  LET closure == cls[tr.closure]
      argv == [i \in 1..tr.nargs |-> DEREF_U32(v.mem, args_ptr + 4 * (i - 1))]
      call == [closure |-> tr.closure, cif |-> closure.cif, fun |-> closure.fun,
               user_data |-> closure.user_data, result |-> ret_ptr, args_ptr |-> args_ptr,
               args |-> argv,
               values |-> [i \in 1..tr.nargs |-> ReadBytes(v.mem, argv[i], tr.infos[i].size)],
               incoming |-> Len(args), jsarg_idx |-> f.jsarg_idx, sig |-> tr.sig,
               depth |-> depth, entry |-> orig_stack_ptr, exit |-> orig_stack_ptr,
               threw |-> FALSE]
  IN Only({trampoline_exit(tr, call, hd, orig_stack_ptr, ret_ptr) :
             hd \in {js_handler(h, c, tbl, cls, closure.fun, v.mem, stackAlloc(v.cur_ptr), fn,
                                ret_ptr, argv, depth)}})

\* one invocation of the trampoline in slot fn with the incoming values
\* args: the memory and the stack pointer it leaves, whether it threw, the
\* value it returns, and what its handlers were given
trampoline(h, c, tbl, cls, tr, m, sp, fn, args, depth) ==
  LET orig_stack_ptr == sp
      ret_ptr == IF tr.ret_by_arg THEN DEREF_U32(args[1], 1) ELSE STACK_ALLOC(orig_stack_ptr, 8, 8)
      args_ptr == (IF tr.ret_by_arg THEN orig_stack_ptr ELSE ret_ptr) - 4 * tr.nargs
      varargs == IF args = <<>> THEN 0 ELSE DEREF_U32(args[Len(args)], 1)
  IN Only({Only({trampoline_call(h, c, tbl, cls, tr, fn, args, depth, orig_stack_ptr, ret_ptr,
                                 args_ptr, f, v) :
                   v \in {trampoline_var(tr, f.mem, f.cur_ptr, args_ptr, tr.nfixedargs + 1, varargs)}}) :
             f \in {trampoline_fixed(tr, args, m, args_ptr, args_ptr, 1,
                                     IF tr.ret_by_arg THEN 1 ELSE 0)}})

\* the conversion of the value the table entry returned, stored at rvalue
js_store_result(h, c, m, rvalue, result) ==
  LET rtype_id == unbox_small_structs(h, c.rtype).id
  IN CASE rtype_id \in {FFI_TYPE_INT, FFI_TYPE_UINT32, FFI_TYPE_SINT32, FFI_TYPE_POINTER,
                        FFI_TYPE_FLOAT} -> HeapSet(m, rvalue, SubSeq(result, 1, 4))
       [] rtype_id \in {FFI_TYPE_DOUBLE, FFI_TYPE_UINT64, FFI_TYPE_SINT64} ->
            HeapSet(m, rvalue, SubSeq(result, 1, 8))
       [] rtype_id \in {FFI_TYPE_UINT8, FFI_TYPE_SINT8} -> HeapSet(m, rvalue, SubSeq(result, 1, 1))
       [] rtype_id \in {FFI_TYPE_UINT16, FFI_TYPE_SINT16} -> HeapSet(m, rvalue, SubSeq(result, 1, 2))
       [] OTHER -> m

\* ffi_call_js calling the trampoline in slot fn: no try/finally around the
\* call of the table entry, so an Error leaves the stack pointer where the
\* callee left it
ffi_call_js(h, c, tbl, cls, m, sp, fn, rvalue, avalue, depth) ==
  Only({IF a.throw THEN [mem |-> m, sp |-> sp, throw |-> TRUE, calls |-> <<>>, args |-> <<>>]
        ELSE Only({IF t.throw
                   THEN [mem |-> t.mem, sp |-> t.sp, throw |-> TRUE, calls |-> t.calls,
                         args |-> a.args]
                   ELSE [mem |-> js_store_result(h, c, t.mem, rvalue, t.result), sp |-> sp,
                         throw |-> FALSE, calls |-> t.calls, args |-> a.args] :
                     t \in {trampoline(h, c, tbl, cls, tbl[fn].trampoline, a.mem, stackAlloc(a.cur),
                                       fn, a.args, depth)}}) :
          a \in {js_call_args(h, c, m, sp, rvalue, avalue)}})

\* the handlers and user data a caller passes
UserData == {"data1", "data2"}

\* ffi_prep_closure_loc_js recording the fields before it converts the
\* trampoline
ffi_prep_closure_loc_js_fields_first(h, c, tbl, cls, closure, fun, user_data, codeloc, converts) ==
  LET s == js_signature(h, c)
      recorded == [cls EXCEPT ![closure] = [@ EXCEPT !.cif = "cif", !.fun = fun,
                                                     !.user_data = user_data]]
  IN IF s.throw THEN [throw |-> TRUE, status |-> NoStatus, table |-> tbl, closures |-> cls]
     ELSE IF ~converts
     THEN [throw |-> FALSE, status |-> FFI_BAD_TYPEDEF, table |-> tbl, closures |-> recorded]
     ELSE [throw |-> FALSE, status |-> FFI_OK,
           table |-> [tbl EXCEPT ![codeloc] = [@ EXCEPT !.argument_types = s.sig,
                                                        !.user_data = closure,
                                                        !.trampoline = js_trampoline(h, c, closure)]],
           closures |-> recorded]

\* ffi_prep_closure_loc_js; converts is whether convertJsFunctionToWasm
\* returns a function (it throws otherwise)
ffi_prep_closure_loc_js(h, c, tbl, cls, closure, fun, user_data, codeloc, converts) ==
  LET s == js_signature(h, c)
  IN IF s.throw THEN [throw |-> TRUE, status |-> NoStatus, table |-> tbl, closures |-> cls]
     ELSE IF ~converts
     THEN [throw |-> FALSE, status |-> FFI_BAD_TYPEDEF, table |-> tbl, closures |-> cls]
     ELSE [throw |-> FALSE, status |-> FFI_OK,
           table |-> [tbl EXCEPT ![codeloc] = [@ EXCEPT !.argument_types = s.sig,
                                                        !.user_data = closure,
                                                        !.trampoline = js_trampoline(h, c, closure)]],
           closures |-> [cls EXCEPT ![closure] = [@ EXCEPT !.cif = "cif", !.fun = fun,
                                                           !.user_data = user_data]]]

\* a table entry of the emscripten build that holds no trampoline
NoTrampoline == <<>>
JsFreeSlot == [state |-> "free", argument_types |-> <<>>, result_types |-> <<>>, user_data |-> NULL, trampoline |-> NoTrampoline]

\* the sequence s without its element at position k
RemoveAt(s, k) == SubSeq(s, 1, k - 1) \o SubSeq(s, k + 1, Len(s))

\* getEmptyTableSlot: an index taken off freeTableIndexes, or the index of a
\* new entry at the end of the table (a slot in state "free" is past the end)
getEmptyTableSlot(tbl, pool) ==
  {[index |-> pool[k], table |-> tbl, pool |-> RemoveAt(pool, k)] : k \in 1..Len(pool)}
  \cup {[index |-> s, table |-> [tbl EXCEPT ![s].state = "reserved"], pool |-> pool] :
          s \in {x \in DOMAIN tbl : tbl[x].state = "free" /\ \A y \in DOMAIN tbl : y < x => tbl[y].state # "free"}}

\* ffi_closure_alloc of the emscripten build
ffi_closure_alloc_js ==
  /\ ~aborted
  /\ variant = Emscripten
  /\ \E c \in DOMAIN closures :
       /\ ~closures[c].live
       /\ \E r \in getEmptyTableSlot(table, freeTableIndexes) :
            /\ table' = r.table
            /\ freeTableIndexes' = r.pool
            /\ closures' = [closures EXCEPT ![c] = [DeadClosure EXCEPT !.live = TRUE, !.code = r.index]]
  /\ lastOp' = "ffi_closure_alloc"
  /\ ClearObservations
  /\ UNCHANGED <<stack_pointer, applied, variant, types, types0, cif, nullKind, status, aborted, mem>>

\* ffi_closure_free_js forgetting to hand the index back
free_table_index_dropped(pool, index) == pool

\* freeTableIndexes.push(index)
free_table_index(pool, index) == Append(pool, index)

\* ffi_closure_free of the emscripten build: the index in the header of the
\* closure goes on freeTableIndexes, the table entry stays as it is
ffi_closure_free_js ==
  /\ ~aborted
  /\ variant = Emscripten
  /\ \E c \in DOMAIN closures :
       /\ closures[c].live
       /\ freeTableIndexes' = free_table_index(freeTableIndexes, closures[c].code)
       /\ closures' = [closures EXCEPT ![c] = DeadClosure]
  /\ lastOp' = "ffi_closure_free"
  /\ ClearObservations
  /\ UNCHANGED <<stack_pointer, applied, variant, types, types0, cif, nullKind, status, aborted, mem, table>>

\* ffi_prep_closure_loc of the emscripten build; hostError is whether
\* convertJsFunctionToWasm threw
ffi_prep_closure_loc_emscripten ==
  /\ ~aborted
  /\ variant = Emscripten
  /\ \E c \in DOMAIN closures, fun \in Funs, user_data \in UserData, codeloc \in DOMAIN table,
        converts \in BOOLEAN :
       /\ closures[c].live
       /\ applied' = <<[op |-> "ffi_prep_closure_loc", closure |-> c, fun |-> fun,
                        user_data |-> user_data, codeloc |-> codeloc]>>
       /\ IF cif.abi # FFI_WASM32_EMSCRIPTEN
          THEN /\ status' = FFI_BAD_ABI
               /\ hostError' = FALSE
               /\ UNCHANGED <<aborted, closures, table>>
          ELSE \E r \in {ffi_prep_closure_loc_js(types, cif, table, closures, c, fun, user_data,
                                                 codeloc, converts)} :
                 /\ aborted' = r.throw
                 /\ hostError' = (~r.throw /\ ~converts)
                 /\ status' = IF r.throw THEN status ELSE r.status
                 /\ table' = r.table
                 /\ closures' = r.closures
  /\ lastOp' = "ffi_prep_closure_loc"
  /\ hostCall' = <<>>
  /\ handlerCall' = <<>>
  /\ UNCHANGED <<stack_pointer, freeTableIndexes, variant, types, types0, cif, nullKind, mem>>

\* the user descriptors: a complex number, small structs to unbox, and a
\* struct of two ints
JsShapes ==
  {ComplexDescr(PredefinedTypes, ffi_type_double), StructDescr(PredefinedTypes, <<>>),
   StructDescr(PredefinedTypes, <<ffi_type_double>>)}
JsHeaps ==
  {PredefinedTypes @@ (FirstUser :> a)
     @@ (LastUser :> StructDescr(PredefinedTypes, <<ffi_type_sint32, ffi_type_sint32>>)) :
     a \in JsShapes}
JsTypeChoices == {ffi_type_void, ffi_type_sint32, ffi_type_longdouble} \cup UserIds

InitJs ==
  /\ variant = Emscripten
  /\ types \in JsHeaps
  /\ \E a \in Abis, v \in SeqsUpTo(JsTypeChoices, MaxArgs), r \in JsTypeChoices :
       cif = Cif(a, Len(v), v, r, Len(v) + 1)
  /\ nullKind = FFI_TYPE_VOID
  /\ types0 = types
  /\ status = NoStatus
  /\ lastOp = "init"
  /\ aborted = FALSE
  /\ mem = [a \in Addrs |-> 0]
  /\ table = [s \in Slots |-> JsFreeSlot]
  /\ closures = [c \in ClosureIds |-> DeadClosure]
  /\ NoObservations
  /\ applied = <<>>
  /\ stack_pointer = StackTop
  /\ freeTableIndexes = <<>>

NextJs ==
  \/ ffi_prep_cif_machdep
  \/ ffi_prep_cif_machdep_var
  \/ ffi_closure_alloc_js
  \/ ffi_closure_free_js
  \/ ffi_prep_closure_loc_emscripten

SpecJs == InitJs /\ [][NextJs]_vars

(***************************************************************************)
(* SpecJsCall: the emscripten build with calls of closures.                *)
(***************************************************************************)
\* memory as the caller hands it over: its argument values at avalue[i],
\* zeroes elsewhere
JsCallerMemory(seed, nargs) ==
  [a \in JsAddrs |->
     IF a >= ArgValueAddr(1) /\ a < ArgValueAddr(nargs + 1)
     THEN ArgByte(seed, ((a - ArgValueAddr(1)) \div 16) + 1, ((a - ArgValueAddr(1)) % 16) + 1)
     ELSE 0]

\* the seed of the values the caller passes
JsValueSeeds == {127}
\* the memory of the caller when the call is over, without the stack
JsPopFrame(m) == [a \in Addrs |-> IF a >= StackLimit THEN 0 ELSE m[a]]

\* the trampoline in slot fn was made for the CIF as it is now, and its
\* closure is still allocated
PreparedFor(h, c, tbl, cls, fn) ==
  /\ tbl[fn].trampoline # NoTrampoline
  /\ cls[tbl[fn].trampoline.closure].live
  /\ cls[tbl[fn].trampoline.closure].cif = "cif"
  /\ tbl[fn].trampoline = js_trampoline(h, c, tbl[fn].trampoline.closure)

\* ffi_call of the emscripten build on a slot that holds a trampoline
ffi_call_emscripten ==
  /\ ~aborted
  /\ variant = Emscripten
  /\ cif.nfixedargs <= cif.nargs
  /\ \E fn \in DOMAIN table, seed \in JsValueSeeds :
       /\ PreparedFor(types, cif, table, closures, fn)
       /\ \E r \in {ffi_call_js(types, cif, table, closures, JsCallerMemory(seed, cif.nargs),
                                stack_pointer, fn, RvalueAddr,
                                [i \in 1..cif.nargs |-> ArgValueAddr(i)], 0)} :
            /\ mem' = JsPopFrame(r.mem)
            /\ stack_pointer' = r.sp
            /\ aborted' = r.throw
            /\ handlerCall' = r.calls
            /\ hostCall' = <<[function |-> fn, args |-> r.args]>>
  /\ hostError' = FALSE
  /\ lastOp' = "ffi_call"
  /\ UNCHANGED <<freeTableIndexes, applied, variant, types, types0, cif, nullKind, status, table, closures>>

\* the user descriptors: a struct of two ints, and a struct of one double
\* that is unboxed
JsCallHeap ==
  PredefinedTypes @@ (FirstUser :> StructDescr(PredefinedTypes, <<ffi_type_sint32, ffi_type_sint32>>))
                  @@ (LastUser :> StructDescr(PredefinedTypes, <<ffi_type_double>>))
\* the first argument is an int, a long double or a struct, the second a
\* narrow integer, a double or a struct, the third (after an int) an int or
\* a struct of one double
JsCallArgVectors ==
  {<<>>} \cup
  {<<a>> \o v : a \in {ffi_type_sint32, ffi_type_longdouble, FirstUser},
                v \in {<<>>} \cup {<<b>> : b \in {ffi_type_uint8, ffi_type_sint16, ffi_type_double, FirstUser}}}
  \cup {<<ffi_type_sint32, b, c>> : b \in {ffi_type_uint8, ffi_type_sint16, ffi_type_double, FirstUser},
                                     c \in {ffi_type_sint32, LastUser}}
JsCallRTypeChoices == {ffi_type_void, ffi_type_sint32, FirstUser}

InitJsCall ==
  /\ variant = Emscripten
  /\ types = JsCallHeap
  /\ \E v \in JsCallArgVectors, r \in JsCallRTypeChoices :
       cif = Cif(FFI_WASM32_EMSCRIPTEN, Len(v), v, r, Len(v) + 1)
  /\ nullKind = FFI_TYPE_VOID
  /\ types0 = types
  /\ status = NoStatus
  /\ lastOp = "init"
  /\ aborted = FALSE
  /\ mem = [a \in Addrs |-> 0]
  /\ table = [s \in Slots |-> JsFreeSlot]
  /\ closures = [c \in ClosureIds |-> DeadClosure]
  /\ NoObservations
  /\ applied = <<>>
  /\ stack_pointer = StackTop
  /\ freeTableIndexes = <<>>

NextJsCall ==
  \/ ffi_prep_cif_machdep
  \/ ffi_prep_cif_machdep_var
  \/ ffi_closure_alloc_js
  \/ ffi_prep_closure_loc_emscripten
  \/ ffi_call_emscripten

SpecJsCall == InitJsCall /\ [][NextJsCall]_vars

(***************************************************************************)
(* SpecPool: allocation and release of closures in the emscripten build.   *)
(***************************************************************************)
MaxPoolClosures == 3
MaxPoolSlots == 3

InitPool ==
  /\ variant = Emscripten
  /\ types = JsCallHeap
  /\ cif = Cif(FFI_WASM32_EMSCRIPTEN, 0, <<>>, ffi_type_void, 1)
  /\ nullKind = FFI_TYPE_VOID
  /\ types0 = types
  /\ status = NoStatus
  /\ lastOp = "init"
  /\ aborted = FALSE
  /\ mem = [a \in Addrs |-> 0]
  /\ table = [s \in 1..MaxPoolSlots |-> JsFreeSlot]
  /\ closures = [c \in 1..MaxPoolClosures |-> DeadClosure]
  /\ NoObservations
  /\ applied = <<>>
  /\ stack_pointer = StackTop
  /\ freeTableIndexes = <<>>

NextPool ==
  \/ ffi_closure_alloc_js
  \/ ffi_closure_free_js

SpecPool == InitPool /\ [][NextPool]_vars

(***************************************************************************)
(* Properties of CIF preparation (checked under Spec).                     *)
(***************************************************************************)
Prepared == lastOp = "prep_cif_machdep" /\ ~aborted
PreparedWasix == Prepared /\ variant = Wasix

Elements(h, t) == {h[t].elements[i] : i \in 1..Len(h[t].elements)}
\* positions of the non-void elements of t
NonVoidElements(h, t) == {i \in 1..Len(h[t].elements) : h[h[t].elements[i]].type # FFI_TYPE_VOID}

\* C1: in the non-emscripten build, after ffi_prep_cif_machdep has returned, no
\* descriptor reachable from the CIF (return type, argument types, their
\* elements, recursively) has kind COMPLEX.
C1_NoComplexAfterPrep ==
  PreparedWasix =>
    \A t \in Reachable(types, cif) : types[t].type # FFI_TYPE_COMPLEX

\* a complex float nested in a struct argument or return type was rewritten
C1_Witness ==
  /\ PreparedWasix
  /\ types[FirstUser].elements = <<ffi_type_float, ffi_type_float>>
  /\ types[FirstUser].type = FFI_TYPE_STRUCT
  /\ FirstUser \in Elements(types, LastUser)
  /\ LastUser \in CifRoots(cif)

\* C2: in the non-emscripten build, after ffi_prep_cif_machdep has returned,
\* every reachable descriptor of kind STRUCT has at least two non-void
\* elements, and every reachable descriptor of size 0 has kind VOID.
C2_StructsHaveTwoNonVoid ==
  PreparedWasix =>
    \A t \in Reachable(types, cif) :
      /\ types[t].type = FFI_TYPE_STRUCT => Cardinality(NonVoidElements(types, t)) >= 2
      /\ types[t].size = 0 => types[t].type = FFI_TYPE_VOID

\* C3: in the non-emscripten build, after ffi_prep_cif_machdep has returned,
\* the return type descriptor does not have kind LONGDOUBLE.
C3_ReturnNeverLongDouble ==
  PreparedWasix =>
    (cif.rtype # NULL => types[cif.rtype].type # FFI_TYPE_LONGDOUBLE)

\* C4: a second ffi_prep_cif_machdep on the CIF it has just prepared changes
\* no field of the CIF or of a descriptor and returns the same status.
C4_SecondPrepIsNoOp ==
  [][(Prepared /\ lastOp' = "prep_cif_machdep")
       => (types' = types /\ cif' = cif /\ status' = status /\ aborted' = aborted)]_vars

\* C5 as stated: in both builds ffi_prep_cif_machdep returns FFI_BAD_TYPEDEF
\* exactly when nargs > MAX_ARGS.
C5_BadTypedefIffTooManyArgs ==
  Prepared => (status = FFI_BAD_TYPEDEF <=> cif.nargs > MAX_ARGS)

TopLevelComplex(h, c) ==
  \/ TypeKind(h, c.rtype) = FFI_TYPE_COMPLEX
  \/ \E i \in 1..c.nargs : h[ArgType(c, i)].type = FFI_TYPE_COMPLEX

\* C5 amended: in the non-emscripten build ffi_prep_cif_machdep returns
\* FFI_BAD_TYPEDEF exactly when nargs > MAX_ARGS; in the emscripten build it
\* returns FFI_BAD_TYPEDEF exactly when the abi is FFI_WASM32_EMSCRIPTEN and
\* either nargs > MAX_ARGS or the kind it reads through cif->rtype, or the
\* kind of a top-level argument type, is COMPLEX.
C5_BadTypedefAmended ==
  Prepared =>
    IF variant = Wasix
    THEN status = FFI_BAD_TYPEDEF <=> cif.nargs > MAX_ARGS
    ELSE status = FFI_BAD_TYPEDEF <=>
           (/\ cif.abi = FFI_WASM32_EMSCRIPTEN
            /\ (cif.nargs > MAX_ARGS \/ TopLevelComplex(types, cif)))

\* a CIF of MAX_ARGS + 1 arguments was refused
C5_Witness ==
  /\ Prepared
  /\ cif.nargs = MAX_ARGS + 1
  /\ status = FFI_BAD_TYPEDEF

\* the abi tags a build implements
ImplementedAbis(v) == IF v = Emscripten THEN {FFI_WASM32_EMSCRIPTEN} ELSE {FFI_WASM32}

\* C6: ffi_prep_cif_machdep and ffi_prep_cif_machdep_var return FFI_BAD_ABI
\* for a CIF whose abi tag the build does not implement.
C6_UnimplementedAbiRefused ==
  (/\ lastOp \in {"prep_cif_machdep", "prep_cif_machdep_var"}
   /\ ~aborted
   /\ cif.abi \notin ImplementedAbis(variant))
    => status = FFI_BAD_ABI

\* the struct collapse rule for one application of replace_type to t
CollapseRule(h, t, in_results) ==
  LET r == replace_type(h, t, in_results)
      nonvoid == NonVoidElements(r.h, t)
  IN /\ ~r.abort
     \* every element is canonical: canonicalising it again changes nothing
     /\ \A e \in Elements(h, t) : replace_type(r.h, e, FALSE).h = r.h
     /\ Cardinality(nonvoid) = 1 =>
          \A i \in nonvoid : r.h[t].type = r.h[h[t].elements[i]].type
     /\ Cardinality(nonvoid) = 0 => r.h[t].type = FFI_TYPE_VOID
     /\ Cardinality(nonvoid) > 1 => r.h[t].type = FFI_TYPE_STRUCT
     /\ r.k = r.h[t].type
     /\ r.h[t].size = h[t].size
     /\ r.h[t].alignment = h[t].alignment
     /\ r.h[t].elements = h[t].elements

\* C10: replace_type on a STRUCT descriptor of non-zero size canonicalises
\* every element and then gives the descriptor the kind of its only non-void
\* element, VOID if it has none, and leaves it STRUCT if it has more than one
\* (also when they share a kind); size and alignment stay as they were.
C10_StructCollapseRule ==
  \A t \in UserIds, in_results \in BOOLEAN :
    (types[t].type = FFI_TYPE_STRUCT /\ types[t].size # 0)
      => CollapseRule(types, t, in_results)

\* ffi_prep_cif_machdep collapsed struct{int, zero-size struct} to the int's
\* kind and kept its size
C10_Witness ==
  /\ PreparedWasix
  /\ LastUser \in CifRoots(cif)
  /\ types[LastUser].elements = <<ffi_type_sint32, FirstUser>>
  /\ types[FirstUser].elements = <<>>
  /\ types[FirstUser].type = FFI_TYPE_VOID
  /\ types[LastUser].type = FFI_TYPE_SINT32
  /\ types[LastUser].size = 4

\* C15: in the non-emscripten build ffi_prep_cif_machdep_var returns
\* FFI_BAD_ABI, and in every reachable state a CIF with abi FFI_WASM32 has
\* the VARARGS flag bit clear.
C15_VarargsUnsupported ==
  variant = Wasix =>
    /\ (lastOp = "prep_cif_machdep_var" /\ ~aborted) => status = FFI_BAD_ABI
    /\ cif.abi = FFI_WASM32 => ~HasVarargsFlag(cif)

\* the half of C15 about the status alone
VarPrepReturnsBadAbi ==
  (variant = Wasix /\ lastOp = "prep_cif_machdep_var" /\ ~aborted) => status = FFI_BAD_ABI

\* the flag bit is set only by ffi_prep_cif_machdep_var, whatever it returns
VarargsFlagSetOnlyByVarPrep ==
  [][(~HasVarargsFlag(cif) /\ HasVarargsFlag(cif')) => lastOp' = "prep_cif_machdep_var"]_vars

\* the return type, if there is one, or a top-level argument type is COMPLEX
DescribesComplex(h, c) ==
  \/ c.rtype # NULL /\ h[c.rtype].type = FFI_TYPE_COMPLEX
  \/ \E i \in 1..c.nargs : h[ArgType(c, i)].type = FFI_TYPE_COMPLEX

\* C17: in the emscripten build ffi_prep_cif_machdep returns FFI_BAD_TYPEDEF
\* whenever the return type or a top-level argument type has kind COMPLEX,
\* and on every path leaves every type descriptor unchanged.
C17_ComplexRefusedNoRewriting ==
  (variant = Emscripten /\ Prepared) =>
    /\ DescribesComplex(types, cif) => status = FFI_BAD_TYPEDEF
    /\ types = types0

\* C17 amended: in the emscripten build ffi_prep_cif_machdep returns
\* FFI_BAD_ABI when the abi is not FFI_WASM32_EMSCRIPTEN, returns
\* FFI_BAD_TYPEDEF when the abi is FFI_WASM32_EMSCRIPTEN and the return type
\* or a top-level argument type has kind COMPLEX, and on every path leaves
\* every type descriptor unchanged.
C17_ComplexRefusedAmended ==
  (variant = Emscripten /\ Prepared) =>
    /\ cif.abi # FFI_WASM32_EMSCRIPTEN => status = FFI_BAD_ABI
    /\ (cif.abi = FFI_WASM32_EMSCRIPTEN /\ TopLevelComplex(types, cif)) => status = FFI_BAD_TYPEDEF
    /\ types = types0

\* a CIF of the emscripten abi with a COMPLEX argument and another return
\* type was refused, its descriptors as they were
C17_Witness ==
  /\ variant = Emscripten
  /\ Prepared
  /\ cif.abi = FFI_WASM32_EMSCRIPTEN
  /\ cif.nargs = 1
  /\ types[ArgType(cif, 1)].type = FFI_TYPE_COMPLEX
  /\ TypeKind(types, cif.rtype) # FFI_TYPE_COMPLEX
  /\ status = FFI_BAD_TYPEDEF
  /\ types = types0

(***************************************************************************)
(* Calls and closures of the non-emscripten build (SpecCall).              *)
(***************************************************************************)
\* ffi_prep_cif_machdep has been applied to the CIF, which is not variadic
CifPrepared == ~HasVarargsFlag(cif) /\ cif.nfixedargs = cif.nargs

Variadic(c) == HasVarargsFlag(c) /\ c.nfixedargs # c.nargs

\* C7: in the non-emscripten build ffi_call aborts, without having invoked the
\* host's dynamic call, when the CIF is variadic under FFI_WASM32 and when
\* its abi tag is not one of the enumeration.
C7_CallAbortsBeforeHost ==
  (/\ lastOp = "ffi_call"
   /\ \/ cif.abi = FFI_WASM32 /\ Variadic(cif)
      \/ cif.abi = FFI_OTHER_ABI)
  => (aborted /\ hostCall = <<>>)

\* the CIF as the caller built it describes T f(T), T not empty
IdentityCif ==
  /\ cif.nargs = 1
  /\ cif.rtype # NULL
  /\ types0[cif.arg_types[1]] = types0[cif.rtype]
  /\ types0[cif.rtype].size > 0

\* C8: for a CIF T f(T) prepared by ffi_prep_cif_machdep, binding a closure
\* to the copying handler and calling its slot through ffi_call stores the
\* argument value in rvalue, and neither step aborts on a type (the only
\* abort is a host error, as when the slot called was never prepared).
C8_ClosureRoundTrip ==
  (/\ IdentityCif
   /\ cif.abi = FFI_WASM32
   /\ CifPrepared
   /\ lastOp \in {"ffi_prep_closure_loc", "ffi_call"})
  => /\ aborted => hostError
     /\ (lastOp = "ffi_call" /\ ~aborted)
          => ReadBytes(mem, RvalueAddr, types0[cif.rtype].size)
             = ReadBytes(mem, ArgValueAddr(1), types0[cif.rtype].size)

\* the CIF as the caller built it describes long double id(long double)
LongDoubleIdCif ==
  /\ cif.nargs = 1
  /\ cif.rtype # NULL
  /\ types0[cif.arg_types[1]] = PredefinedTypes[ffi_type_longdouble]
  /\ types0[cif.rtype] = PredefinedTypes[ffi_type_longdouble]

\* C9: after ffi_prep_cif_machdep on long double id(long double), whether the
\* argument and the return type are one descriptor or two, the return type is
\* a struct of two 64-bit integers returned indirectly, the argument type is
\* still of kind LONGDOUBLE, and ffi_call hands the host 20 bytes: the result
\* pointer, then the 16 bytes of the argument.
C9_LongDoubleCall ==
  (LongDoubleIdCif /\ CifPrepared)
  => /\ types[cif.rtype] = Descr(FFI_TYPE_STRUCT, 16, 16, <<ffi_type_sint64, ffi_type_sint64>>)
     /\ return_indirect(types, cif.rtype) = Val(TRUE)
     /\ types[cif.arg_types[1]].type = FFI_TYPE_LONGDOUBLE
     /\ lastOp = "ffi_call"
          => /\ hostCall # <<>>
             /\ hostCall[1].values_len = 20
             /\ hostCall[1].values
                = PointerBytes(RvalueAddr) \o ReadBytes(mem, ArgValueAddr(1), 16)

\* What the code does keep of the three properties above that fail.
\* A second ffi_prep_cif_machdep is a no-op unless the first left a return
\* type of kind LONGDOUBLE.
IdempotentUnlessLongDoubleReturn ==
  [][(/\ Prepared
      /\ lastOp' = "prep_cif_machdep"
      /\ (variant = Wasix /\ cif.rtype # NULL) => types[cif.rtype].type # FFI_TYPE_LONGDOUBLE)
       => (types' = types /\ cif' = cif /\ status' = status /\ aborted' = aborted)]_vars

\* The closure round trip holds unless preparation left a return type of kind
\* LONGDOUBLE.
RoundTripUnlessLongDoubleReturn ==
  (IdentityCif /\ CifPrepared /\ types[cif.rtype].type = FFI_TYPE_LONGDOUBLE)
  \/ C8_ClosureRoundTrip

\* The long double call is as described when the argument and the return type
\* are two descriptors.
LongDoubleCallDistinctDescriptors ==
  (LongDoubleIdCif /\ cif.arg_types[1] # cif.rtype) => C9_LongDoubleCall

(***************************************************************************)
(* Properties of the classifier, the lowerer and the raiser (SpecAbi).     *)
(***************************************************************************)
\* the kinds replace_type leaves on an argument type, and on a return type
CanonicalKinds ==
  Int32Kinds \cup {FFI_TYPE_VOID, FFI_TYPE_FLOAT, FFI_TYPE_DOUBLE, FFI_TYPE_UINT64,
                   FFI_TYPE_SINT64, FFI_TYPE_POINTER, FFI_TYPE_STRUCT, FFI_TYPE_LONGDOUBLE}
CanonicalReturnKinds == CanonicalKinds \ {FFI_TYPE_LONGDOUBLE}

Applied(op) == applied # <<>> /\ applied[1].op = op

\* C11: return_indirect of a canonical return type (or of a null one) is true
\* exactly when the type has kind STRUCT; it is false for null, VOID, the
\* integer kinds, POINTER, FLOAT, DOUBLE and the 64-bit integer kinds.
C11_IndirectIffStruct ==
  Applied("return_indirect") =>
    LET t == applied[1].type
    IN (t = NULL \/ types[t].type \in CanonicalReturnKinds)
         => applied[1].result = Val(t # NULL /\ types[t].type = FFI_TYPE_STRUCT)

\* return_indirect answered true for a struct of two ints
C11_Witness ==
  /\ Applied("return_indirect")
  /\ applied[1].type = LastUser
  /\ types[LastUser].type = FFI_TYPE_STRUCT
  /\ applied[1].result = Val(TRUE)

\* the wasm slots of a canonical kind, as the table of the ABI gives them
SlotTable(k) ==
  CASE k = FFI_TYPE_VOID -> <<>>
    [] k \in Int32Kinds \cup {FFI_TYPE_POINTER, FFI_TYPE_STRUCT} -> <<FFI_WASM_TYPE_I32>>
    [] k = FFI_TYPE_FLOAT -> <<FFI_WASM_TYPE_F32>>
    [] k \in {FFI_TYPE_UINT64, FFI_TYPE_SINT64} -> <<FFI_WASM_TYPE_I64>>
    [] k = FFI_TYPE_DOUBLE -> <<FFI_WASM_TYPE_F64>>
    [] k = FFI_TYPE_LONGDOUBLE -> <<FFI_WASM_TYPE_I64, FFI_WASM_TYPE_I64>>

\* C12: for a type of canonical kind, type_size is the sum of the widths of
\* the kind codes place_type emits, arguments_count is their number,
\* place_value and take_value advance the cursor by type_size, and sizes,
\* counts and codes are those of the table.
C12_SlotByteAgreement ==
  (applied # <<>> /\ applied[1].type # NULL
   /\ types[applied[1].type].type \in CanonicalKinds)
  => LET a == applied[1]
         t == a.type
         slots == SlotTable(types[t].type)
     IN /\ a.op = "type_size" =>
             /\ a.result = Val(WasmSizes(slots))
             /\ a.result.v = WasmSizes(place_type(types, t).v)
        /\ a.op = "arguments_count" =>
             /\ a.result = Val(Len(slots))
             /\ a.result.v = Len(place_type(types, t).v)
        /\ a.op = "place_type" => a.result = Val(slots)
        /\ a.op \in {"place_value", "take_value"} =>
             /\ ~aborted
             /\ a.cursor = a.values + type_size(types, t).v
             /\ a.cursor = a.values + WasmSizes(slots)

\* a long double was lowered: the cursor advanced by sixteen bytes, the size
\* of its two 64-bit slots
C12_Witness ==
  /\ Applied("place_value")
  /\ types[applied[1].type].type = FFI_TYPE_LONGDOUBLE
  /\ applied[1].cursor = applied[1].values + 16
  /\ place_type(types, applied[1].type) = Val(<<FFI_WASM_TYPE_I64, FFI_WASM_TYPE_I64>>)

\* C13: for a type of canonical kind other than STRUCT, take_value at the
\* cursor where place_value wrote a value hands out a pointer at which the
\* bytes of a value of the type are those of the value written, and the two
\* cursors end at the same position.
C13_PlaceTakeRoundTrip ==
  (Applied("take_value") /\ types[applied[1].type].type \in CanonicalKinds \ {FFI_TYPE_STRUCT})
  => LET a == applied[1]
         d == types[a.type]
     IN /\ ~aborted
        /\ a.cursor = a.placed
        /\ d.type # FFI_TYPE_VOID =>
             ReadBytes(mem, a.result, d.size) = ReadBytes(mem, ArgValueAddr(1), d.size)

\* a negative signed 8-bit value was written and read back
C13_Witness ==
  /\ Applied("take_value")
  /\ types[applied[1].type].type = FFI_TYPE_SINT8
  /\ mem[ArgValueAddr(1)] >= 128
  /\ mem[applied[1].result] = mem[ArgValueAddr(1)]
  /\ applied[1].cursor = applied[1].values + 4

\* the unsigned value little-endian bytes hold (at most two of them)
Unsigned(bs) == IF Len(bs) = 1 THEN bs[1] ELSE bs[1] + 256 * bs[2]
\* the same bytes read as a two's complement number
Signed(bs) ==
  IF bs[Len(bs)] >= 128 THEN Unsigned(bs) - (IF Len(bs) = 1 THEN 256 ELSE 65536)
  ELSE Unsigned(bs)
\* the low and the high half of the four-byte slot at address a
SlotLow(a) == mem[a] + 256 * mem[a + 1]
SlotHigh(a) == mem[a + 2] + 256 * mem[a + 3]

\* C20: place_value writes, for a value of kind UINT8 or UINT16, a four-byte
\* slot holding its zero-extension and, for SINT8 or SINT16, a slot holding
\* its sign-extension (the value modulo 2^32); the cursor advances by four.
C20_IntegerWidening ==
  (Applied("place_value") /\ types[applied[1].type].type
      \in {FFI_TYPE_UINT8, FFI_TYPE_UINT16, FFI_TYPE_SINT8, FFI_TYPE_SINT16})
  => LET a == applied[1]
         d == types[a.type]
         v == ReadBytes(mem, ArgValueAddr(1), d.size)
     IN /\ ~aborted
        /\ a.cursor = a.values + 4
        /\ d.type \in {FFI_TYPE_UINT8, FFI_TYPE_UINT16} =>
             SlotLow(a.values) = Unsigned(v) /\ SlotHigh(a.values) = 0
        /\ d.type \in {FFI_TYPE_SINT8, FFI_TYPE_SINT16} =>
             IF Signed(v) < 0
             THEN SlotLow(a.values) = 65536 + Signed(v) /\ SlotHigh(a.values) = 65535
             ELSE SlotLow(a.values) = Signed(v) /\ SlotHigh(a.values) = 0

\* a negative signed 16-bit value was widened
C20_Witness ==
  /\ Applied("place_value")
  /\ types[applied[1].type].type = FFI_TYPE_SINT16
  /\ Signed(ReadBytes(mem, ArgValueAddr(1), 2)) < 0
  /\ SlotHigh(applied[1].values) = 65535
  /\ applied[1].cursor = applied[1].values + 4

(***************************************************************************)
(* Closures and the host (checked under SpecCall).                         *)
(***************************************************************************)
LiveClosures == {c \in ClosureIds : closures[c].live}
\* the table indices the host holds reserved
ReservedSlots == {s \in Slots : table[s].state # "free"}

\* C14: in the non-emscripten build, whatever codeloc ffi_prep_closure_loc
\* was given, ffi_closure_free of a live closure releases exactly the table
\* index ffi_closure_alloc reserved for it and ends the closure, so that the
\* indices the host holds reserved are always those of the live closures,
\* one each.
C14_SlotOwnership ==
  /\ [](/\ ReservedSlots = {closures[c].code : c \in LiveClosures}
        /\ \A c, d \in LiveClosures : closures[c].code = closures[d].code => c = d)
  /\ [][lastOp' = "ffi_closure_free" =>
          \E c \in LiveClosures :
            /\ ~aborted'
            /\ table' = [table EXCEPT ![closures[c].code] = FreeSlot]
            /\ closures' = [closures EXCEPT ![c] = DeadClosure]]_vars

\* a closure that was prepared has been freed: no closure is live and no
\* slot is reserved
C14_Witness ==
  /\ lastOp = "ffi_closure_free"
  /\ ~aborted
  /\ LiveClosures = {}
  /\ ReservedSlots = {}
  /\ status = FFI_OK

\* C18: in the non-emscripten build the process aborts whenever a host
\* primitive reports an error, so no entry point returns after a host error,
\* and ffi_prep_closure_loc returns FFI_OK only when the host has installed
\* the trampoline at codeloc.
C18_HostFailuresFatal ==
  /\ hostError => aborted
  /\ (lastOp = "ffi_prep_closure_loc" /\ ~aborted /\ status = FFI_OK) =>
       \E c \in LiveClosures :
         /\ closures[c].ftramp \in Slots
         /\ table[closures[c].ftramp].state = "prepared"
         /\ table[closures[c].ftramp].user_data = c

\* the host refused to install a trampoline at a codeloc that is no reserved
\* slot, and the process aborted
C18_Witness ==
  /\ lastOp = "ffi_prep_closure_loc"
  /\ hostError
  /\ aborted
  /\ \A s \in Slots : table[s].state # "prepared"

\* the host refused to reserve a slot, and the process aborted
AllocationRefused == lastOp = "ffi_closure_alloc" /\ hostError /\ aborted
\* the host refused a dynamic call, and the process aborted
DynamicCallRefused == lastOp = "ffi_call" /\ hostError /\ aborted

\* the CIF has canonical types only
CanonicalCif ==
  /\ \A i \in 1..cif.nargs : types[ArgType(cif, i)].type \in CanonicalKinds
  /\ cif.rtype # NULL => types[cif.rtype].type \in CanonicalReturnKinds
\* the return value goes through a pointer
IndirectReturn == cif.rtype # NULL /\ types[cif.rtype].type = FFI_TYPE_STRUCT
\* the bytes a type takes in a buffer, by the table
SlotBytes(t) == WasmSizes(SlotTable(types[t].type))
\* where argument i starts in the values buffer (counted from 1)
RECURSIVE ArgOffset(_)
ArgOffset(i) ==
  IF i = 1 THEN (IF IndirectReturn THEN 4 ELSE 0)
  ELSE ArgOffset(i - 1) + SlotBytes(ArgType(cif, i - 1))
\* the bytes argument i is lowered to
Lowered(i) ==
  LET d == types[ArgType(cif, i)]
      v == ReadBytes(mem, ArgValueAddr(i), d.size)
  IN CASE d.type = FFI_TYPE_VOID -> <<>>
       [] d.type \in {FFI_TYPE_UINT8, FFI_TYPE_UINT16} -> v \o [j \in 1..(4 - d.size) |-> 0]
       [] d.type \in {FFI_TYPE_SINT8, FFI_TYPE_SINT16} ->
            v \o [j \in 1..(4 - d.size) |-> IF Signed(v) < 0 THEN 255 ELSE 0]
       [] d.type = FFI_TYPE_STRUCT -> PointerBytes(ArgValueAddr(i))
       [] OTHER -> ReadBytes(mem, ArgValueAddr(i), SlotBytes(ArgType(cif, i)))

\* C19: for a CIF of canonical types the values buffer ffi_call hands the
\* host is 4 bytes, if the return is indirect, plus the sizes of the
\* arguments long; if the return is indirect its first 4 bytes are rvalue;
\* the arguments follow in index order without padding; and the result
\* length is 0 if the return is indirect and the size of the return type
\* otherwise.
C19_CallBufferLayout ==
  (lastOp = "ffi_call" /\ hostCall # <<>> /\ CanonicalCif) =>
    LET call == hostCall[1]
    IN /\ call.values_len = ArgOffset(cif.nargs + 1)
       /\ Len(call.values) = call.values_len
       /\ IndirectReturn => SubSeq(call.values, 1, 4) = PointerBytes(RvalueAddr)
       /\ \A i \in 1..cif.nargs :
            SubSeq(call.values, ArgOffset(i) + 1, ArgOffset(i + 1)) = Lowered(i)
       /\ call.results_len = IF IndirectReturn \/ cif.rtype = NULL THEN 0
                             ELSE SlotBytes(cif.rtype)

\* a function of two arguments returning a struct through a pointer was
\* called and the host accepted the buffers
C19_Witness ==
  /\ lastOp = "ffi_call"
  /\ hostCall # <<>>
  /\ ~hostError
  /\ CanonicalCif
  /\ IndirectReturn
  /\ cif.nargs = 2
  /\ types[ArgType(cif, 1)].type = FFI_TYPE_DOUBLE
  /\ hostCall[1].values_len = 16
  /\ hostCall[1].results_len = 0

(***************************************************************************)
(* Closures of the emscripten build (checked under SpecJs).                *)
(***************************************************************************)
\* C16: in the emscripten build, when convertJsFunctionToWasm fails,
\* ffi_prep_closure_loc returns FFI_BAD_TYPEDEF and leaves the table entry
\* at codeloc and the closure's cif, fun and user_data as they were; when it
\* succeeds the trampoline is installed at codeloc, the three fields are
\* recorded and the call returns FFI_OK.
C16_ConversionOutcome ==
  [][(/\ variant = Emscripten
      /\ lastOp' = "ffi_prep_closure_loc"
      /\ cif.abi = FFI_WASM32_EMSCRIPTEN
      /\ ~aborted')
     => LET call == applied'[1]
        IN IF hostError'
           THEN /\ status' = FFI_BAD_TYPEDEF
                /\ table'[call.codeloc] = table[call.codeloc]
                /\ closures'[call.closure].cif = closures[call.closure].cif
                /\ closures'[call.closure].fun = closures[call.closure].fun
                /\ closures'[call.closure].user_data = closures[call.closure].user_data
           ELSE /\ status' = FFI_OK
                /\ table'[call.codeloc].argument_types = js_signature(types, cif).sig
                /\ table'[call.codeloc].user_data = call.closure
                /\ closures'[call.closure].cif = "cif"
                /\ closures'[call.closure].fun = call.fun
                /\ closures'[call.closure].user_data = call.user_data]_vars

\* a closure prepared with one handler was prepared again with another, the
\* conversion failed, and the closure still has the first handler
C16_Witness ==
  /\ variant = Emscripten
  /\ lastOp = "ffi_prep_closure_loc"
  /\ hostError
  /\ status = FFI_BAD_TYPEDEF
  /\ closures[applied[1].closure].cif = "cif"
  /\ closures[applied[1].closure].fun # applied[1].fun
  /\ table[applied[1].codeloc].user_data = applied[1].closure

(***************************************************************************)
(* The signature and the backing function of a closure (SpecCall).         *)
(***************************************************************************)
\* the slots of the arguments from argument i on, by the table
RECURSIVE ArgSlots(_)
ArgSlots(i) ==
  IF i > cif.nargs THEN <<>> ELSE SlotTable(types[ArgType(cif, i)].type) \o ArgSlots(i + 1)
\* the kind arrays the host is to get for the CIF
ExpectedArgumentTypes == (IF IndirectReturn THEN <<FFI_WASM_TYPE_I32>> ELSE <<>>) \o ArgSlots(1)
ExpectedResultTypes ==
  IF IndirectReturn \/ cif.rtype = NULL THEN <<>> ELSE SlotTable(types[cif.rtype].type)
\* ffi_prep_closure_loc refused the emscripten abi and touched nothing
RefusedUntouched ==
  /\ ~aborted'
  /\ status' = FFI_BAD_ABI
  /\ hostCall' = <<>>
  /\ closures' = closures
  /\ table' = table
\* the host was asked to install the expected signature
ExpectedSignature ==
  /\ hostCall' # <<>>
  /\ hostCall'[1].argument_types = ExpectedArgumentTypes
  /\ hostCall'[1].result_types = ExpectedResultTypes

\* C21: in the non-emscripten build ffi_prep_closure_loc passes the host,
\* for a CIF of canonical types whose abi is not FFI_WASM32_EMSCRIPTEN, the
\* argument kinds (an I32 first if the return is indirect, then the slots
\* of the arguments in order) and the result kinds (none if the return is
\* indirect or void, a null return type being void, else the slot of the
\* return type); for the abi FFI_WASM32_EMSCRIPTEN it returns FFI_BAD_ABI,
\* the closure as it was and the host not called.
C21_ClosureSignature ==
  [][(variant = Wasix /\ lastOp' = "ffi_prep_closure_loc") =>
       IF cif.abi = FFI_WASM32_EMSCRIPTEN THEN RefusedUntouched
       ELSE CanonicalCif => ExpectedSignature]_vars

\* the same for the CIFs that have a return type descriptor
SignatureWithReturnType ==
  [][(variant = Wasix /\ lastOp' = "ffi_prep_closure_loc") =>
       IF cif.abi = FFI_WASM32_EMSCRIPTEN THEN RefusedUntouched
       ELSE (CanonicalCif /\ cif.rtype # NULL) => ExpectedSignature]_vars

\* the pointer the four bytes at offset off of the buffer handed to the
\* host hold
SlotPointer(off) == BytesPointer(SubSeq(hostCall[1].values, off + 1, off + 4))
\* where the backing function finds argument i: at its place in the
\* incoming buffer, or where the pointer in its slot points
ExpectedArg(i) ==
  IF types[ArgType(cif, i)].type = FFI_TYPE_STRUCT THEN SlotPointer(ArgOffset(i))
  ELSE WasmArgsAddr + ArgOffset(i)

\* C22: the backing function calls the handler of the closure once, with
\* the cif, handler and user_data of the closure, the result area (the
\* pointer in the hidden first slot if the return is indirect, else the
\* outgoing result buffer) and, for each argument, the cursor position of
\* its slot in the incoming buffer, or for a STRUCT the pointer in the slot,
\* the cursor advancing by the size of each argument.
C22_BackingFunction ==
  (lastOp = "ffi_call" /\ hostCall # <<>> /\ ~hostError /\ CanonicalCif) =>
    LET closure == closures[table[hostCall[1].function].user_data]
    IN /\ Len(handlerCall) = 1
       /\ handlerCall[1].cif = closure.cif
       /\ handlerCall[1].fun = closure.fun
       /\ handlerCall[1].user_data = closure.user_data
       /\ handlerCall[1].result = IF IndirectReturn THEN SlotPointer(0) ELSE WasmResultsAddr
       /\ Len(handlerCall[1].args) = cif.nargs
       /\ \A i \in 1..cif.nargs : handlerCall[1].args[i] = ExpectedArg(i)

\* the closure of a function of a long double and an int returning a struct
\* was called: the handler got the caller's return storage and the
\* arguments at offsets 4 and 20 of the incoming buffer
C22_Witness ==
  /\ lastOp = "ffi_call"
  /\ hostCall # <<>>
  /\ ~hostError
  /\ CanonicalCif
  /\ IndirectReturn
  /\ cif.nargs = 2
  /\ handlerCall # <<>>
  /\ handlerCall[1].fun = "copy_handler"
  /\ handlerCall[1].result = RvalueAddr
  /\ handlerCall[1].args = <<WasmArgsAddr + 4, WasmArgsAddr + 20>>

(***************************************************************************)
(* nfixedargs                                                              *)
(***************************************************************************)
PrepStep == lastOp' = "prep_cif_machdep" /\ ~aborted'
\* the emscripten build returns before the shared tail of ffi_prep_cif_machdep
RefusedEarly ==
  /\ variant = Emscripten
  /\ (cif.abi # FFI_WASM32_EMSCRIPTEN \/ TopLevelComplex(types, cif))

\* C26: after ffi_prep_cif_machdep on a CIF whose VARARGS flag is clear
\* nfixedargs = nargs, also when the call returns FFI_BAD_TYPEDEF; on a CIF
\* whose flag is set ffi_prep_cif_machdep leaves nfixedargs as
\* ffi_prep_cif_machdep_var recorded it; and after any sequence of the two
\* calls with requested nfixedargs <= nargs, nfixedargs <= nargs.
C26_NFixedArgs ==
  [][/\ (PrepStep /\ ~HasVarargsFlag(cif)) => cif'.nfixedargs = cif'.nargs
     /\ (PrepStep /\ HasVarargsFlag(cif)) => cif'.nfixedargs = cif.nfixedargs
     /\ ~aborted' => cif'.nfixedargs <= cif'.nargs]_vars

\* C26 as the code has it: the same, for the calls that reach the shared tail
\* of ffi_prep_cif_machdep (the emscripten build returns FFI_BAD_ABI, and
\* FFI_BAD_TYPEDEF for a COMPLEX type, before it)
C26_NFixedArgsAmended ==
  [][/\ (PrepStep /\ ~HasVarargsFlag(cif) /\ ~RefusedEarly) => cif'.nfixedargs = cif'.nargs
     /\ (PrepStep /\ HasVarargsFlag(cif)) => cif'.nfixedargs = cif.nfixedargs
     /\ (~aborted' /\ (HasVarargsFlag(cif') \/ ~RefusedEarly))
          => cif'.nfixedargs <= cif'.nargs]_vars

C26_Witness ==
  /\ Prepared
  /\ ~HasVarargsFlag(cif)
  /\ status = FFI_BAD_TYPEDEF
  /\ cif.nargs > MAX_ARGS
  /\ cif.nfixedargs = cif.nargs

(***************************************************************************)
(* A null return type                                                      *)
(***************************************************************************)
\* C27: for a CIF whose rtype is null every operation treats the return as
\* VOID (direct return, zero result bytes, empty result-kind sequence) and
\* never reads through the null descriptor: whatever the memory at the null
\* address holds, no operation aborts on it, ffi_call asks the host for zero
\* result bytes and passes no return slot, and ffi_prep_closure_loc hands the
\* host an empty result-kind sequence and no kind for a return slot.
C27_NullReturnIsVoid ==
  (variant = Wasix /\ cif.rtype = NULL) =>
    /\ aborted => hostError
    /\ (lastOp = "ffi_call" /\ hostCall # <<>>) =>
         /\ hostCall[1].results_len = 0
         /\ hostCall[1].values_len = ArgOffset(cif.nargs + 1)
    /\ (lastOp = "ffi_prep_closure_loc" /\ hostCall # <<>>) =>
         /\ hostCall[1].result_types = <<>>
         /\ Len(hostCall[1].argument_types) = Len(ArgSlots(1))

\* the part of C27 about ffi_call alone
NullReturnCall ==
  (variant = Wasix /\ cif.rtype = NULL /\ lastOp = "ffi_call" /\ hostCall # <<>>) =>
    /\ hostCall[1].results_len = 0
    /\ hostCall[1].values_len = ArgOffset(cif.nargs + 1)

(***************************************************************************)
(* The cursors of the non-emscripten marshalling                           *)
(***************************************************************************)
\* C29: for every canonical CIF the cursor of ffi_call after the last
\* argument is the end of the values buffer (values + total_size), so every
\* write of place_value falls inside the buffer; in ffi_prep_closure_loc the
\* argument-kind and result-kind cursors end at argument_count and
\* result_count entries, never beyond.
C29_CursorsEndAtBufferEnd ==
  (variant = Wasix /\ CanonicalCif /\ hostCall # <<>>) =>
    /\ lastOp = "ffi_call" =>
         /\ hostCall[1].current_value = ValuesAddr + hostCall[1].values_len
         /\ hostCall[1].values_len <= WasmArgsAddr - ValuesAddr
    /\ lastOp = "ffi_prep_closure_loc" =>
         /\ hostCall[1].arg_types_ptr = hostCall[1].argument_count
         /\ hostCall[1].result_types_ptr = hostCall[1].result_count

C29_Witness ==
  /\ variant = Wasix
  /\ CanonicalCif
  /\ lastOp = "ffi_call"
  /\ hostCall # <<>>
  /\ cif.nargs = 2
  /\ types[ArgType(cif, 1)].type = FFI_TYPE_UINT8
  /\ IndirectReturn
  /\ hostCall[1].current_value = ValuesAddr + 12

(***************************************************************************)
(* Aggregates passed by value                                              *)
(***************************************************************************)
\* the bytes the caller put at avalue[i]
CallerBytes(seed, i) == ReadBytes(CallerMemory(seed, cif.nargs), ArgValueAddr(i), types[ArgType(cif, i)].size)
StructArgs == {i \in 1..cif.nargs : types[ArgType(cif, i)].type = FFI_TYPE_STRUCT}

\* C28: for every STRUCT argument i of ffi_call the callee receives a pointer
\* to a copy, so after a callee has written through the pointers it received
\* the caller's bytes at avalue[i] are what they were before the call.
C28_StructArgumentsCopied ==
  (variant = Wasix /\ lastOp = "ffi_call" /\ ~aborted /\ CanonicalCif /\ handlerCall # <<>>) =>
    \E seed \in ValueSeeds :
      \A i \in StructArgs : ReadBytes(mem, ArgValueAddr(i), types[ArgType(cif, i)].size) = CallerBytes(seed, i)

\* the callee that writes nothing through its arguments leaves them alone
StructArgumentsKeptByCopyHandler ==
  (variant = Wasix /\ lastOp = "ffi_call" /\ ~aborted /\ CanonicalCif /\ handlerCall # <<>>
     /\ handlerCall[1].fun = "copy_handler" /\ ~IndirectReturn) =>
    \E seed \in ValueSeeds :
      \A i \in StructArgs : ReadBytes(mem, ArgValueAddr(i), types[ArgType(cif, i)].size) = CallerBytes(seed, i)

(***************************************************************************)
(* The emscripten build: signature, stack and varargs (SpecJsCall).        *)
(***************************************************************************)
\* the kind a type is marshalled as once small structs are unboxed
UnboxedKind(t) == unbox_small_structs(types, t).id
ReturnByArgument == UnboxedKind(cif.rtype) \in {FFI_TYPE_STRUCT, FFI_TYPE_LONGDOUBLE}
VarargsPassed == cif.nfixedargs < cif.nargs

ReturnLetter ==
  CASE UnboxedKind(cif.rtype) \in {FFI_TYPE_VOID, FFI_TYPE_STRUCT, FFI_TYPE_LONGDOUBLE} -> "v"
    [] UnboxedKind(cif.rtype) = FFI_TYPE_FLOAT -> "f"
    [] UnboxedKind(cif.rtype) = FFI_TYPE_DOUBLE -> "d"
    [] UnboxedKind(cif.rtype) \in {FFI_TYPE_UINT64, FFI_TYPE_SINT64} -> "j"
    [] OTHER -> "i"
ArgLetters(i) ==
  CASE UnboxedKind(ArgType(cif, i)) = FFI_TYPE_FLOAT -> <<"f">>
    [] UnboxedKind(ArgType(cif, i)) = FFI_TYPE_DOUBLE -> <<"d">>
    [] UnboxedKind(ArgType(cif, i)) \in {FFI_TYPE_UINT64, FFI_TYPE_SINT64} -> <<"j">>
    [] UnboxedKind(ArgType(cif, i)) = FFI_TYPE_LONGDOUBLE -> <<"j", "j">>
    [] OTHER -> <<"i">>
RECURSIVE FixedLetters(_)
FixedLetters(i) == IF i > cif.nfixedargs THEN <<>> ELSE ArgLetters(i) \o FixedLetters(i + 1)
ExpectedLetters ==
  <<ReturnLetter>> \o (IF ReturnByArgument THEN <<"i">> ELSE <<>>) \o FixedLetters(1)
    \o (IF VarargsPassed THEN <<"i">> ELSE <<>>)

\* ffi_prep_closure_loc has installed a trampoline for the CIF
TrampolineInstalled ==
  /\ variant = Emscripten
  /\ lastOp = "ffi_prep_closure_loc"
  /\ cif.abi = FFI_WASM32_EMSCRIPTEN
  /\ ~aborted
  /\ status = FFI_OK
\* ffi_call has called a trampoline
TrampolineCalled == variant = Emscripten /\ lastOp = "ffi_call" /\ handlerCall # <<>>

\* C23: for every CIF ffi_prep_closure_loc_js accepts, the signature is the
\* return letter (v for STRUCT and LONGDOUBLE), a synthetic i iff the return
\* is STRUCT or LONGDOUBLE, the letters of the fixed arguments (jj for
\* LONGDOUBLE, i for STRUCT) and a trailing i iff nfixedargs < nargs; and the
\* trampoline takes, for the hidden pointer and the fixed arguments, as many
\* incoming values as there are letters after the return letter, the
\* varargs i left out.
C23_SignatureLetters ==
  /\ TrampolineInstalled => table[applied[1].codeloc].argument_types = ExpectedLetters
  /\ TrampolineCalled =>
       \A k \in 1..Len(handlerCall) :
         /\ handlerCall[k].sig = ExpectedLetters
         /\ handlerCall[k].incoming = Len(ExpectedLetters) - 1
         /\ handlerCall[k].jsarg_idx = Len(ExpectedLetters) - 1 - (IF VarargsPassed THEN 1 ELSE 0)

C23_Witness ==
  /\ TrampolineCalled
  /\ handlerCall[1].sig = <<"v", "i", "j", "j", "i">>
  /\ handlerCall[1].jsarg_idx = 3
  /\ handlerCall[1].incoming = 4

\* C24: every invocation of a closure trampoline leaves the wasm stack
\* pointer equal to its value at entry, on every exit path: the handler
\* returns, the handler throws, the handler itself calls ffi_call.
C24_StackPointerRestored ==
  TrampolineCalled =>
    \A k \in 1..Len(handlerCall) : handlerCall[k].exit = handlerCall[k].entry

\* the same for the invocations whose handler returned; ffi_call then leaves
\* the stack pointer where it found it
StackPointerRestoredOnReturn ==
  TrampolineCalled =>
    /\ \A k \in 1..Len(handlerCall) :
         ~handlerCall[k].threw => handlerCall[k].exit = handlerCall[k].entry
    /\ ~aborted => stack_pointer = StackTop

\* a handler called ffi_call on its own slot, and both invocations returned
NestedInvocationReturned ==
  /\ TrampolineCalled
  /\ ~aborted
  /\ Len(handlerCall) = 2
  /\ handlerCall[2].depth = 1
  /\ handlerCall[2].entry < handlerCall[1].entry

\* the bytes the caller put at avalue[i], of the size of the unboxed type
PassedValue(i) ==
  ReadBytes(mem, ArgValueAddr(i), types[unbox_small_structs(types, ArgType(cif, i)).ptr].size)
VariadicArgs == (cif.nfixedargs + 1)..cif.nargs

\* C25: when ffi_call_js calls a slot holding a closure prepared for the same
\* variadic CIF, the trampoline's argv[i] points, for every variadic argument
\* i, at bytes equal to the value at avalue[i], for every mix of variadic
\* kinds (1-, 2-, 4-, 8- and 16-byte scalars and structs).
C25_VarargsAgree ==
  (TrampolineCalled /\ VarargsPassed) =>
    \A i \in VariadicArgs : handlerCall[1].values[i] = PassedValue(i)

\* a variadic argument of four bytes or more is where the trampoline looks
\* for it when every variadic argument before it takes four bytes
FourByteKinds ==
  {FFI_TYPE_INT, FFI_TYPE_UINT32, FFI_TYPE_SINT32, FFI_TYPE_POINTER, FFI_TYPE_FLOAT, FFI_TYPE_STRUCT}
VarargsAgreeInFourByteSlots ==
  (TrampolineCalled /\ VarargsPassed) =>
    \A i \in VariadicArgs :
      (/\ \A j \in VariadicArgs : j < i => UnboxedKind(ArgType(cif, j)) \in FourByteKinds
       /\ UnboxedKind(ArgType(cif, i))
            \notin {FFI_TYPE_UINT8, FFI_TYPE_SINT8, FFI_TYPE_UINT16, FFI_TYPE_SINT16})
        => handlerCall[1].values[i] = PassedValue(i)

(***************************************************************************)
(* The free-slot pool of the emscripten build (SpecPool).                  *)
(***************************************************************************)
AllocatedClosures == {c \in DOMAIN closures : closures[c].live}
PooledSlots == {freeTableIndexes[k] : k \in 1..Len(freeTableIndexes)}
\* the table indices getEmptyTableSlot has handed out so far
HandedOutSlots == {s \in DOMAIN table : table[s].state # "free"}

\* C30: over any sequence of ffi_closure_alloc and ffi_closure_free in which
\* each closure is freed at most once and keeps its header word, two live
\* closures never hold the same table slot, no slot of a live closure is in
\* the free-slot pool, and the slot of each freed closure is in the pool
\* exactly once until it is handed out again.
C30_FreeSlotPool ==
  variant = Emscripten =>
    /\ \A c, d \in AllocatedClosures : closures[c].code = closures[d].code => c = d
    /\ \A c \in AllocatedClosures : closures[c].code \notin PooledSlots
    /\ \A j, k \in 1..Len(freeTableIndexes) : freeTableIndexes[j] = freeTableIndexes[k] => j = k
    /\ HandedOutSlots = PooledSlots \cup {closures[c].code : c \in AllocatedClosures}

C30_Witness ==
  /\ variant = Emscripten
  /\ lastOp = "ffi_closure_alloc"
  /\ Cardinality(AllocatedClosures) = 2
  /\ Len(freeTableIndexes) = 1
  /\ closures[1].live = FALSE

====
